---- MODULE Spec2Model ----
(***************************************************************************)
(* State-machine model of the Pin e-paper firmware runtime:                *)
(*   - display service facade (pin_display.c) and the raw panel callers,   *)
(*   - plugin runtime (pin_plugin.c): lifecycle, workers, supervisor,      *)
(*   - tracking allocator (pin_plugin_malloc / pin_plugin_free),           *)
(*   - plugin quotas: allocations and host-API calls of the callbacks,     *)
(*   - canvas engine store operations, mutex and renderer (pin_canvas.c),  *)
(*   - OTA engine (pin_ota.c),                                             *)
(*   - Wi-Fi provisioning state machine (wifi-configuration.md).           *)
(* Each subsystem has its own next-state relation and specification; the   *)
(* variables of the other subsystems stay unchanged under it.              *)
(***************************************************************************)
EXTENDS Integers, Sequences, FiniteSets, TLC

VARIABLES
    \* ---- display service facade / panel driver
    display_mutex,      \* holder of g_display_mutex, or "free"
    panel_op,           \* per task: fpc_a005_* call in progress, or "none"
    disp_pc,            \* per task: position inside a display operation
    disp_mode,          \* per task: refresh mode of the call in progress
    disp_ret,           \* per task: result of the last finished operation
    g_refresh_stats,    \* refresh statistics record
    \* ---- plugin runtime
    plugins,            \* per plugin: the pin_plugin_t runtime fields
    ctx,                \* per plugin: the context fields (is_suspended, stats)
    tasks,              \* per task handle: the worker task, or NoWorker
    caller,             \* per caller of pin_plugin_enable: position and arguments
    message_queue,      \* the supervisor's queue
    posted,             \* number of messages posted so far
    log,                \* per plugin: trace flags of the run
    inflight,           \* per worker: size admitted by pin_plugin_malloc, not yet added
    api_entries,        \* per plugin: host-API calls made since the window began
    \* ---- tracking allocator
    mem,                \* memory_used / memory_peak / memory_limit of one context
    blocks,             \* live blocks handed out by pin_plugin_malloc
    \* ---- canvas engine
    nvs_canvas,         \* the "pin_canvas" NVS namespace: id -> canvas or NoCanvas
    client,             \* per client task: position, local copy, arguments
    canvas_mutex,       \* holder of handle->mutex, or "free"
    canvas_lock,        \* per client task: position around xSemaphoreTake
    \* ---- OTA engine
    g_ota_status,       \* state, update_available, error_message, progress
    cancel_bit,         \* OTA_CANCEL_BIT of ota_event_group
    ota_tasks,          \* per task slot: the OTA worker, or NoOtaTask
    ota_checker,        \* per caller of pin_ota_check_update: position
    ota_env,            \* callbacks seen, reboot, boot partition
    \* ---- Wi-Fi provisioning
    g_wifi_config,      \* state, retry_count, max_retry, flags, target credentials
    connect_started,    \* the static flag of wifi_handle_connecting_state
    wifi_event_group,   \* bits set in g_wifi_config.wifi_event_group
    wifi_nvs,           \* credentials in the "pin_wifi" NVS namespace, or "none"
    wifi_env,           \* access point, station link, pending attempt and the
                        \* credentials it was accepted with, portal
    \* ---- canvas renderer
    render,             \* the last pin_canvas_render call: canvas and buffer
    \* ---- canvas JSON export / import
    json_rt,            \* one export -> import -> export run: documents and canvases
    \* ---- panel driver framebuffer
    panel,              \* framebuffer, last set_pixel / get_pixel, data refreshed
    \* ---- plugin registry
    registry,           \* g_plugin_manager.plugins[0..plugin_count), last register call
    \* ---- plugin HTTP API
    http,               \* the last http_get / http_post call: url, result, host contacted
    \* ---- OTA update check
    update_check,        \* the last pin_ota_check_update call and what it left in g_ota_status
    \* ---- OTA boot and commit
    boot,    \* the image the bootloader started, its OTA state, and g_ota_status.current_version
    \* ---- refresh policy
    refresher,    \* refresh statistics and the decision counters of one refreshing task, the clock
    \* ---- panel driver power state
    driver,    \* is_sleeping of the panel handle, and each task's position in a driver call
    \* ---- refresh statistics under concurrent calls
    refresh_calls    \* pin_display_refresh calls of two tasks: mutex, statistics, each task's position

dispVars == <<display_mutex, panel_op, disp_pc, disp_mode, disp_ret, g_refresh_stats>>
plugVars == <<plugins, ctx, tasks, caller, message_queue, posted, log>>
quotaVars == <<inflight, api_entries>>
memVars == <<mem, blocks>>
canvVars == <<nvs_canvas, client>>
lockVars == <<canvas_mutex, canvas_lock>>
otaVars == <<g_ota_status, cancel_bit, ota_tasks, ota_checker, ota_env>>
wifiVars == <<g_wifi_config, connect_started, wifi_event_group, wifi_nvs, wifi_env>>
renderVars == <<render>>
\* The subsystems that are followed with one variable each.
unitVars == <<json_rt, panel, registry, http, update_check, boot, refresher, driver, refresh_calls>>
\* The subsystems above them.
coreVars == <<dispVars, plugVars, quotaVars, memVars, canvVars, lockVars, otaVars,
              wifiVars, renderVars>>
vars == <<coreVars, unitVars>>

(***************************************************************************)
(* Display service facade (pin_display.c) and raw panel callers            *)
(***************************************************************************)

\* The tasks that touch the panel: the main task (startup/ready screens,
\* deep sleep) and the HTTP server task (display and canvas handlers).
DisplayTasks == {"main", "http"}

\* Cap on the refresh counters kept in g_refresh_stats.
MaxRefreshes == 2

\* Facade operations and the panel-driver call each one wraps.
FacadeOps == {"clear", "draw", "refresh", "sleep", "wake"}

DisplayInit ==
    /\ display_mutex = "free"
    /\ panel_op = [t \in DisplayTasks |-> "none"]
    /\ disp_pc = [t \in DisplayTasks |-> "idle"]
    /\ disp_mode = [t \in DisplayTasks |-> "FULL"]
    /\ disp_ret = [t \in DisplayTasks |-> "none"]
    /\ g_refresh_stats = [total_refreshes |-> 0, full_refreshes |-> 0,
                          partial_refreshes |-> 0, partial_refresh_count |-> 0]

\* xSemaphoreTake(g_display_mutex, deadline) succeeds: the task enters the
\* fpc_a005_* call of the operation.
pin_display_take(t, op, mode) ==
    /\ disp_pc[t] = "idle"
    /\ display_mutex = "free"
    /\ op = "refresh" =>
          g_refresh_stats.total_refreshes < MaxRefreshes
    /\ display_mutex' = t
    /\ panel_op' = [panel_op EXCEPT ![t] = op]
    /\ disp_pc' = [disp_pc EXCEPT ![t] = "locked"]
    /\ disp_mode' = [disp_mode EXCEPT ![t] = mode]
    /\ disp_ret' = [disp_ret EXCEPT ![t] = "none"]
    /\ UNCHANGED g_refresh_stats

\* xSemaphoreTake does not get the mutex within the deadline: ESP_ERR_TIMEOUT,
\* nothing else happens.
pin_display_timeout(t) ==
    /\ disp_pc[t] = "idle"
    /\ display_mutex \notin {"free", t}
    /\ disp_ret' = [disp_ret EXCEPT ![t] = "ESP_ERR_TIMEOUT"]
    /\ UNCHANGED <<display_mutex, panel_op, disp_pc, disp_mode, g_refresh_stats>>

\* The statistics update of pin_display_refresh after a successful refresh.
RefreshStatsUpdate(s, mode) ==
    IF mode = "FULL"
    THEN [s EXCEPT !.total_refreshes = @ + 1,
                   !.full_refreshes = @ + 1,
                   !.partial_refresh_count = 0]
    ELSE [s EXCEPT !.total_refreshes = @ + 1,
                   !.partial_refreshes = @ + 1,
                   !.partial_refresh_count = @ + 1]

\* The fpc_a005_* call returns ret; the mutex is given back. A successful
\* pin_display_refresh goes on to update the statistics.
pin_display_give(t, ret) ==
    /\ disp_pc[t] = "locked"
    /\ display_mutex' = "free"
    /\ panel_op' = [panel_op EXCEPT ![t] = "none"]
    /\ IF panel_op[t] = "refresh" /\ ret = "ESP_OK"
       THEN /\ disp_pc' = [disp_pc EXCEPT ![t] = "stats"]
            /\ UNCHANGED disp_ret
       ELSE /\ disp_pc' = [disp_pc EXCEPT ![t] = "idle"]
            /\ disp_ret' = [disp_ret EXCEPT ![t] = ret]
    /\ UNCHANGED <<disp_mode, g_refresh_stats>>

pin_display_refresh_stats(t) ==
    /\ disp_pc[t] = "stats"
    /\ g_refresh_stats' = RefreshStatsUpdate(g_refresh_stats, disp_mode[t])
    /\ disp_pc' = [disp_pc EXCEPT ![t] = "idle"]
    /\ disp_ret' = [disp_ret EXCEPT ![t] = "ESP_OK"]
    /\ UNCHANGED <<display_mutex, panel_op, disp_mode>>

\* api_display_refresh_handler: fpc_a005_refresh on pin_display_get_handle(),
\* without taking g_display_mutex.
api_display_refresh_handler(t) ==
    /\ t = "http"
    /\ disp_pc[t] = "idle"
    /\ panel_op' = [panel_op EXCEPT ![t] = "refresh"]
    /\ disp_pc' = [disp_pc EXCEPT ![t] = "raw"]
    /\ disp_ret' = [disp_ret EXCEPT ![t] = "none"]
    /\ UNCHANGED <<display_mutex, disp_mode, g_refresh_stats>>

\* pin_canvas_display after its render: fpc_a005_draw_bitmap and
\* fpc_a005_display on the canvas manager's display handle, no display mutex.
pin_canvas_display_panel(t) ==
    /\ t = "http"
    /\ disp_pc[t] = "idle"
    /\ panel_op' = [panel_op EXCEPT ![t] = "bitmap"]
    /\ disp_pc' = [disp_pc EXCEPT ![t] = "raw"]
    /\ disp_ret' = [disp_ret EXCEPT ![t] = "none"]
    /\ UNCHANGED <<display_mutex, disp_mode, g_refresh_stats>>

\* The raw driver call returns.
raw_panel_return(t, ret) ==
    /\ disp_pc[t] = "raw"
    /\ panel_op' = [panel_op EXCEPT ![t] = "none"]
    /\ disp_pc' = [disp_pc EXCEPT ![t] = "idle"]
    /\ disp_ret' = [disp_ret EXCEPT ![t] = ret]
    /\ UNCHANGED <<display_mutex, disp_mode, g_refresh_stats>>

\* Everything outside the display service.
notDisplay == <<plugVars, quotaVars, memVars, canvVars, lockVars, otaVars, wifiVars,
     renderVars,
     unitVars>>

NextDisplay ==
    \/ \E t \in DisplayTasks, op \in FacadeOps, mode \in {"FULL", "PARTIAL"} :
          pin_display_take(t, op, mode) /\ UNCHANGED notDisplay
    \/ \E t \in DisplayTasks : pin_display_timeout(t) /\ UNCHANGED notDisplay
    \/ \E t \in DisplayTasks, ret \in {"ESP_OK", "ESP_FAIL"} :
          pin_display_give(t, ret) /\ UNCHANGED notDisplay
    \/ \E t \in DisplayTasks : pin_display_refresh_stats(t) /\ UNCHANGED notDisplay
    \/ \E t \in DisplayTasks : api_display_refresh_handler(t) /\ UNCHANGED notDisplay
    \/ \E t \in DisplayTasks : pin_canvas_display_panel(t) /\ UNCHANGED notDisplay
    \/ \E t \in DisplayTasks, ret \in {"ESP_OK", "ESP_FAIL"} :
          raw_panel_return(t, ret) /\ UNCHANGED notDisplay

(***************************************************************************)
(* Plugin runtime (pin_plugin.c)                                           *)
(***************************************************************************)

\* The registered built-in whose lifecycle is followed.
Plugins == {"clock"}

\* Callers of pin_plugin_enable: a task using the public API (app_main at
\* boot) and the supervisor task serving the message queue.
Callers == {"api", "mgr"}

PIN_PLUGIN_MAX_ERRORS == 5

\* xQueueCreate(10, ...)
QUEUE_LENGTH == 10

\* Task handles available to xTaskCreate.
MaxTasks == 2
\* Cap on the update callbacks that run to completion in one behaviour.
MaxUpdateCalls == 6
\* Cap on the messages posted to the supervisor queue in one behaviour.
MaxPosts == 1

TaskIds == 1..MaxTasks
NoWorker == [pc |-> "none", plugin |-> "none"]
IdleCaller == [pc |-> "idle", plugin |-> "none"]
MessageTypes == {"PLUGIN_MSG_ENABLE", "PLUGIN_MSG_DISABLE",
                 "PLUGIN_MSG_CONFIG_CHANGED"}

\* The static descriptor as the built-ins declare it.
UnloadedPlugin ==
    [registered |-> FALSE, state |-> "UNLOADED", enabled |-> FALSE,
     initialized |-> FALSE, running |-> FALSE, error_count |-> 0,
     plugin_task |-> 0]

\* memset(ctx, 0, ...) of pin_plugin_init_context, with the descriptor's
\* config limits beside the statistics they are compared with.
ZeroContext ==
    [is_suspended |-> FALSE, memory_used |-> 0, memory_limit |-> 4096,
     api_calls_count |-> 0, api_rate_limit |-> 10,
     update_count |-> 0, error_count |-> 0]

PluginInit ==
    /\ plugins = [p \in Plugins |-> UnloadedPlugin]
    /\ ctx = [p \in Plugins |-> ZeroContext]
    /\ tasks = [w \in TaskIds |-> NoWorker]
    /\ caller = [c \in Callers |-> IdleCaller]
    /\ message_queue = <<>>
    /\ posted = 0
    /\ log = [p \in Plugins |->
                [update_aborted |-> FALSE, disabled |-> FALSE, init_ok |-> FALSE,
                 start_called |-> FALSE, start_ok |-> FALSE]]

WorkersOf(p) == {w \in TaskIds : tasks[w].pc # "none" /\ tasks[w].plugin = p}

\* pin_plugin_register: a new name gets an id, state Loaded and a zeroed
\* context; a name already in the registry is rejected (ESP_ERR_INVALID_STATE).
pin_plugin_register(p) ==
    /\ ~plugins[p].registered
    /\ plugins' = [plugins EXCEPT ![p].registered = TRUE, ![p].state = "LOADED"]
    /\ ctx' = [ctx EXCEPT ![p] = ZeroContext]
    /\ UNCHANGED <<tasks, caller, message_queue, posted, log>>

\* pin_plugin_check_resources: memory over the limit, or API calls over the
\* rate limit (the count is reset while uptime > 60 s, and nothing adds to it).
pin_plugin_check_resources(c) ==
    IF c.memory_used > c.memory_limit THEN "ESP_ERR_NO_MEM"
    ELSE IF c.api_calls_count > c.api_rate_limit THEN "ESP_ERR_INVALID_STATE"
    ELSE "ESP_OK"

\* An enable that goes on to start whatever init returned.
InitPassedAlways(init_ret) == TRUE

\* The test of the init callback's result in the enable branch.
InitPassed(init_ret) == init_ret = "ESP_OK"

\* pin_plugin_enable(name, true), first part: the branch test
\* `enable && !plugin->enabled` and the init callback.
EnableBegin(c, p, init_ret) ==
    /\ caller[c].pc = "idle"
    /\ plugins[p].registered
    /\ ~plugins[p].enabled
    /\ IF ~plugins[p].initialized
       THEN /\ log' = [log EXCEPT ![p].disabled = FALSE,
                                  ![p].init_ok = @ \/ (init_ret = "ESP_OK")]
            /\ IF ~InitPassed(init_ret)
               THEN /\ plugins' = [plugins EXCEPT ![p].state = "ERROR"]
                    /\ caller' = [caller EXCEPT ![c] = IdleCaller]
               ELSE /\ plugins' = [plugins EXCEPT ![p].initialized = TRUE,
                                                  ![p].state = "INITIALIZED"]
                    /\ caller' = [caller EXCEPT ![c] = [pc |-> "start", plugin |-> p]]
       ELSE /\ init_ret = "ESP_OK"
            /\ log' = [log EXCEPT ![p].disabled = FALSE]
            /\ UNCHANGED plugins
            /\ caller' = [caller EXCEPT ![c] = [pc |-> "start", plugin |-> p]]

\* The enabled/running/state assignments of the enable branch.
EnableFlags(pl) ==
    [pl EXCEPT !.enabled = TRUE, !.running = TRUE, !.state = "RUNNING"]

\* pin_plugin_enable(name, true), second part: the start callback, the
\* flags, and xTaskCreate of pin_plugin_task_wrapper.
EnableFinish(c, start_ret, created) ==
    /\ caller[c].pc = "start"
    /\ LET p == caller[c].plugin
           free == {w \in TaskIds : tasks[w].pc = "none"}
       IN  /\ caller' = [caller EXCEPT ![c] = IdleCaller]
           /\ log' = [log EXCEPT ![p].disabled = FALSE,
                                 ![p].start_called = TRUE,
                                 ![p].start_ok = @ \/ (start_ret = "ESP_OK")]
           /\ IF start_ret # "ESP_OK"
              THEN /\ created = FALSE
                   /\ plugins' = [plugins EXCEPT ![p].state = "ERROR"]
                   /\ UNCHANGED tasks
              ELSE IF created
              THEN /\ free # {}
                   /\ LET w == CHOOSE x \in free : \A y \in free : x <= y
                      IN  /\ tasks' = [tasks EXCEPT ![w] = [pc |-> "loop", plugin |-> p]]
                          /\ plugins' = [plugins EXCEPT
                                 ![p] = [EnableFlags(@) EXCEPT !.plugin_task = w]]
              ELSE /\ plugins' = [plugins EXCEPT ![p].enabled = FALSE,
                                                 ![p].running = FALSE,
                                                 ![p].state = "ERROR"]
                   /\ UNCHANGED tasks

\* pin_plugin_enable(name, false), first part: the branch test
\* `!enable && plugin->enabled` and the three assignments.
DisableBegin(c, p) ==
    /\ caller[c].pc = "idle"
    /\ plugins[p].registered
    /\ plugins[p].enabled
    /\ plugins' = [plugins EXCEPT ![p].enabled = FALSE, ![p].running = FALSE,
                                  ![p].state = "LOADED"]
    /\ caller' = [caller EXCEPT ![c] = [pc |-> "teardown", plugin |-> p]]
    /\ UNCHANGED log

\* The worker task a disable deletes: the one plugin->plugin_task names.
TaskToDelete(pl) == pl.plugin_task

\* pin_plugin_enable(name, false), second part: vTaskDelete(plugin_task),
\* plugin_task = NULL, then the stop callback.
DisableFinish(c) ==
    /\ caller[c].pc = "teardown"
    /\ LET p == caller[c].plugin
           w == TaskToDelete(plugins[p])
       IN  /\ caller' = [caller EXCEPT ![c] = IdleCaller]
           /\ plugins' = [plugins EXCEPT ![p].plugin_task = 0]
           /\ tasks' = IF w \in TaskIds THEN [tasks EXCEPT ![w] = NoWorker]
                       ELSE tasks
           /\ log' = [log EXCEPT
                 ![p].update_aborted =
                     @ \/ (w \in TaskIds /\ tasks[w].pc = "in_update"),
                 ![p].disabled = TRUE]

\* A task calls the public pin_plugin_enable.
ApiEnable(p, init_ret) ==
    /\ EnableBegin("api", p, init_ret)
    /\ UNCHANGED <<ctx, tasks, message_queue, posted>>

ApiDisable(p) ==
    /\ DisableBegin("api", p)
    /\ UNCHANGED <<ctx, tasks, message_queue, posted>>

CallerEnableFinish(c, start_ret, created) ==
    /\ EnableFinish(c, start_ret, created)
    /\ UNCHANGED <<ctx, message_queue, posted>>

CallerDisableFinish(c) ==
    /\ DisableFinish(c)
    /\ UNCHANGED <<ctx, message_queue, posted>>

\* A message for the supervisor is put on the queue.
PostMessage(type, p) ==
    /\ posted < MaxPosts
    /\ Len(message_queue) < QUEUE_LENGTH
    /\ message_queue' = Append(message_queue, [type |-> type, plugin_name |-> p])
    /\ posted' = posted + 1
    /\ UNCHANGED <<plugins, ctx, tasks, caller, log>>

\* pin_plugin_manager_task: one xQueueReceive and its switch.
pin_plugin_manager_task(init_ret) ==
    /\ caller["mgr"].pc = "idle"
    /\ message_queue # <<>>
    /\ LET m == Head(message_queue)
           p == m.plugin_name
       IN  /\ message_queue' = Tail(message_queue)
           /\ CASE m.type = "PLUGIN_MSG_ENABLE" /\ plugins[p].registered
                                                /\ ~plugins[p].enabled ->
                     EnableBegin("mgr", p, init_ret)
                [] m.type = "PLUGIN_MSG_DISABLE" /\ plugins[p].registered
                                                 /\ plugins[p].enabled ->
                     /\ init_ret = "ESP_OK"
                     /\ DisableBegin("mgr", p)
                [] OTHER ->
                     /\ init_ret = "ESP_OK"
                     /\ UNCHANGED <<plugins, caller, log>>
    /\ UNCHANGED <<ctx, tasks, posted>>

\* pin_plugin_task_wrapper at the top of its loop: the `running` test, the
\* resource check, and the call of the update callback.
WorkerLoop(w) ==
    /\ tasks[w].pc = "loop"
    /\ LET p == tasks[w].plugin
       IN  IF ~plugins[p].running
           THEN /\ plugins' = [plugins EXCEPT ![p].plugin_task = 0]
                /\ tasks' = [tasks EXCEPT ![w] = NoWorker]
                /\ UNCHANGED ctx
           ELSE IF pin_plugin_check_resources(ctx[p]) # "ESP_OK"
           THEN /\ ctx' = [ctx EXCEPT ![p].is_suspended = TRUE]
                /\ plugins' = [plugins EXCEPT ![p].state = "SUSPENDED"]
                /\ tasks' = [tasks EXCEPT ![w].pc = "delay"]
           ELSE /\ ctx[p].update_count + ctx[p].error_count < MaxUpdateCalls
                /\ tasks' = [tasks EXCEPT ![w].pc = "in_update"]
                /\ UNCHANGED <<plugins, ctx>>
    /\ UNCHANGED <<caller, message_queue, posted, log>>

\* What a failed update does to the plugin record.
UpdateFailed(pl) ==
    IF pl.error_count + 1 >= PIN_PLUGIN_MAX_ERRORS
    THEN [pl EXCEPT !.error_count = @ + 1, !.enabled = FALSE,
                    !.state = "ERROR", !.plugin_task = 0]
    ELSE [pl EXCEPT !.error_count = @ + 1]

\* The update callback returns: the error accounting, and either the sleep
\* of update_interval or, at PIN_PLUGIN_MAX_ERRORS, the exit of the task.
WorkerUpdateReturn(w, ret) ==
    /\ tasks[w].pc = "in_update"
    /\ LET p == tasks[w].plugin
       IN  IF ret # "ESP_OK"
           THEN /\ plugins' = [plugins EXCEPT ![p] = UpdateFailed(@)]
                /\ ctx' = [ctx EXCEPT ![p].error_count = @ + 1]
                /\ tasks' = IF plugins[p].error_count + 1 >= PIN_PLUGIN_MAX_ERRORS
                            THEN [tasks EXCEPT ![w] = NoWorker]
                            ELSE [tasks EXCEPT ![w].pc = "delay"]
           ELSE /\ plugins' = [plugins EXCEPT ![p].error_count = 0]
                /\ ctx' = [ctx EXCEPT ![p].update_count = @ + 1]
                /\ tasks' = [tasks EXCEPT ![w].pc = "delay"]
    /\ UNCHANGED <<caller, message_queue, posted, log>>

\* vTaskDelay ends.
WorkerWake(w) ==
    /\ tasks[w].pc = "delay"
    /\ tasks' = [tasks EXCEPT ![w].pc = "loop"]
    /\ UNCHANGED <<plugins, ctx, caller, message_queue, posted, log>>

Results == {"ESP_OK", "ESP_FAIL"}

\* Everything outside the plugin runtime.
notPlugin == <<dispVars, quotaVars, memVars, canvVars, lockVars, otaVars, wifiVars,
     renderVars,
     unitVars>>

NextPlugin ==
    \/ \E p \in Plugins : pin_plugin_register(p) /\ UNCHANGED notPlugin
    \/ \E p \in Plugins, r \in Results : ApiEnable(p, r) /\ UNCHANGED notPlugin
    \/ \E p \in Plugins : ApiDisable(p) /\ UNCHANGED notPlugin
    \/ \E c \in Callers, r \in Results, b \in BOOLEAN :
          CallerEnableFinish(c, r, b) /\ UNCHANGED notPlugin
    \/ \E c \in Callers : CallerDisableFinish(c) /\ UNCHANGED notPlugin
    \/ \E t \in MessageTypes, p \in Plugins : PostMessage(t, p) /\ UNCHANGED notPlugin
    \/ \E r \in Results : pin_plugin_manager_task(r) /\ UNCHANGED notPlugin
    \/ \E w \in TaskIds : WorkerLoop(w) /\ UNCHANGED notPlugin
    \/ \E w \in TaskIds, r \in Results : WorkerUpdateReturn(w, r) /\ UNCHANGED notPlugin
    \/ \E w \in TaskIds : WorkerWake(w) /\ UNCHANGED notPlugin

(***************************************************************************)
(* The worker's error accounting, load and store apart                     *)
(* (pin_plugin_task_wrapper: plugin->error_count++, stats.error_count++)   *)
(***************************************************************************)

\* The update callback has returned ret: the worker loads the counters it
\* is about to write (plugin->error_count and stats.error_count on a
\* failure, stats.update_count on success). No lock is held.
WorkerUpdateLoad(w, ret) ==
    /\ tasks[w].pc = "in_update"
    /\ LET p == tasks[w].plugin
       IN  tasks' = [tasks EXCEPT ![w] =
              [pc |-> "counting", plugin |-> p, ret |-> ret,
               error_count |-> plugins[p].error_count,
               stats_count |-> IF ret # "ESP_OK" THEN ctx[p].error_count
                               ELSE ctx[p].update_count]]
    /\ UNCHANGED <<plugins, ctx, caller, message_queue, posted, log>>

\* The worker stores the incremented values, tests the threshold on the
\* value it stored, and sleeps or leaves the loop.
WorkerUpdateStore(w) ==
    /\ tasks[w].pc = "counting"
    /\ LET p == tasks[w].plugin
           stored == tasks[w].error_count + 1
       IN  IF tasks[w].ret # "ESP_OK"
           THEN /\ plugins' = [plugins EXCEPT ![p] =
                      IF stored >= PIN_PLUGIN_MAX_ERRORS
                      THEN [@ EXCEPT !.error_count = stored, !.enabled = FALSE,
                                     !.state = "ERROR", !.plugin_task = 0]
                      ELSE [@ EXCEPT !.error_count = stored]]
                /\ ctx' = [ctx EXCEPT ![p].error_count = tasks[w].stats_count + 1]
                /\ tasks' = IF stored >= PIN_PLUGIN_MAX_ERRORS
                            THEN [tasks EXCEPT ![w] = NoWorker]
                            ELSE [tasks EXCEPT ![w] = [pc |-> "delay", plugin |-> p]]
           ELSE /\ plugins' = [plugins EXCEPT ![p].error_count = 0]
                /\ ctx' = [ctx EXCEPT ![p].update_count = tasks[w].stats_count + 1]
                /\ tasks' = [tasks EXCEPT ![w] = [pc |-> "delay", plugin |-> p]]
    /\ UNCHANGED <<caller, message_queue, posted, log>>

NextWorkerCount ==
    \/ \E p \in Plugins : pin_plugin_register(p) /\ UNCHANGED notPlugin
    \/ \E p \in Plugins, r \in Results : ApiEnable(p, r) /\ UNCHANGED notPlugin
    \/ \E p \in Plugins : ApiDisable(p) /\ UNCHANGED notPlugin
    \/ \E c \in Callers, r \in Results, b \in BOOLEAN :
          CallerEnableFinish(c, r, b) /\ UNCHANGED notPlugin
    \/ \E c \in Callers : CallerDisableFinish(c) /\ UNCHANGED notPlugin
    \/ \E t \in MessageTypes, p \in Plugins : PostMessage(t, p) /\ UNCHANGED notPlugin
    \/ \E r \in Results : pin_plugin_manager_task(r) /\ UNCHANGED notPlugin
    \/ \E w \in TaskIds : WorkerLoop(w) /\ UNCHANGED notPlugin
    \/ \E w \in TaskIds, r \in Results : WorkerUpdateLoad(w, r) /\ UNCHANGED notPlugin
    \/ \E w \in TaskIds : WorkerUpdateStore(w) /\ UNCHANGED notPlugin
    \/ \E w \in TaskIds : WorkerWake(w) /\ UNCHANGED notPlugin

(***************************************************************************)
(* Plugin quotas: allocations and host-API calls made from the callbacks   *)
(***************************************************************************)

\* Cap on the host-API calls a plugin makes in one behaviour.
MaxApiCalls == 1

QuotaInit ==
    /\ inflight = [w \in TaskIds |-> 0]
    /\ api_entries = [p \in Plugins |-> 0]

\* Request sizes of the callbacks: the whole quota of the descriptor.
RequestSizes == {ZeroContext.memory_limit}

\* A step of the plugin runtime: a request in flight goes away with the
\* callback that made it (the task was deleted or the callback returned).
RuntimeStep ==
    /\ inflight' = [w \in TaskIds |->
                      IF tasks'[w].pc = "in_update" THEN inflight[w] ELSE 0]
    /\ UNCHANGED api_entries

\* pin_plugin_malloc(ctx, size) called from the update callback, up to the
\* admission test `memory_used + size > memory_limit` (a refused request
\* returns NULL and changes nothing).
pin_plugin_malloc_test(w, size) ==
    /\ tasks[w].pc = "in_update"
    /\ inflight[w] = 0
    /\ size > 0
    /\ ~(ctx[tasks[w].plugin].memory_used + size > ctx[tasks[w].plugin].memory_limit)
    /\ inflight' = [inflight EXCEPT ![w] = size]
    /\ UNCHANGED <<plugVars, api_entries>>

\* pin_plugin_malloc, second half: malloc(size) and, when it answers a
\* block, `memory_used += size`.
pin_plugin_malloc_add(w, heap_ok) ==
    /\ tasks[w].pc = "in_update"
    /\ inflight[w] > 0
    /\ inflight' = [inflight EXCEPT ![w] = 0]
    /\ ctx' = IF heap_ok
              THEN [ctx EXCEPT ![tasks[w].plugin].memory_used = @ + inflight[w]]
              ELSE ctx
    /\ UNCHANGED <<plugins, tasks, caller, message_queue, posted, log, api_entries>>

\* pin_plugin_free(ctx, ptr, size) called from the update callback for a
\* block the plugin holds.
pin_plugin_free_block(w, size) ==
    /\ tasks[w].pc = "in_update"
    /\ inflight[w] = 0
    /\ ctx[tasks[w].plugin].memory_used > 0
    /\ ctx' = [ctx EXCEPT ![tasks[w].plugin].memory_used =
                              IF @ >= size THEN @ - size ELSE 0]
    /\ UNCHANGED <<plugins, tasks, caller, message_queue, posted, log, quotaVars>>

\* plugin_api_get_time_string, the host API the clock's update calls: it
\* formats the local time and returns; the context is not among its
\* arguments and no statistic is written.
plugin_api_get_time_string(w) ==
    /\ tasks[w].pc = "in_update"
    /\ api_entries[tasks[w].plugin] < MaxApiCalls
    /\ api_entries' = [api_entries EXCEPT ![tasks[w].plugin] = @ + 1]
    /\ UNCHANGED <<plugVars, inflight>>

\* Everything outside the plugin runtime and its quotas.
notQuota == <<dispVars, memVars, canvVars, lockVars, otaVars, wifiVars,
     renderVars,
     unitVars>>

NextQuota ==
    \/ \E p \in Plugins : pin_plugin_register(p) /\ RuntimeStep /\ UNCHANGED notQuota
    \/ \E p \in Plugins, r \in Results :
          ApiEnable(p, r) /\ RuntimeStep /\ UNCHANGED notQuota
    \/ \E p \in Plugins : ApiDisable(p) /\ RuntimeStep /\ UNCHANGED notQuota
    \/ \E c \in Callers, r \in Results, b \in BOOLEAN :
          CallerEnableFinish(c, r, b) /\ RuntimeStep /\ UNCHANGED notQuota
    \/ \E c \in Callers : CallerDisableFinish(c) /\ RuntimeStep /\ UNCHANGED notQuota
    \/ \E t \in MessageTypes, p \in Plugins :
          PostMessage(t, p) /\ RuntimeStep /\ UNCHANGED notQuota
    \/ \E r \in Results : pin_plugin_manager_task(r) /\ RuntimeStep /\ UNCHANGED notQuota
    \/ \E w \in TaskIds : WorkerLoop(w) /\ RuntimeStep /\ UNCHANGED notQuota
    \/ \E w \in TaskIds, r \in Results :
          WorkerUpdateReturn(w, r) /\ RuntimeStep /\ UNCHANGED notQuota
    \/ \E w \in TaskIds : WorkerWake(w) /\ RuntimeStep /\ UNCHANGED notQuota
    \/ \E w \in TaskIds, size \in RequestSizes :
          pin_plugin_malloc_test(w, size) /\ UNCHANGED notQuota
    \/ \E w \in TaskIds, heap_ok \in BOOLEAN :
          pin_plugin_malloc_add(w, heap_ok) /\ UNCHANGED notQuota
    \/ \E w \in TaskIds, size \in RequestSizes :
          pin_plugin_free_block(w, size) /\ UNCHANGED notQuota
    \/ \E w \in TaskIds : plugin_api_get_time_string(w) /\ UNCHANGED notQuota

(***************************************************************************)
(* Tracking allocator (pin_plugin_malloc / pin_plugin_free)                *)
(***************************************************************************)

\* uint32_t / size_t arithmetic, scaled: values are 0 .. WordModulus-1 and
\* sums wrap at WordModulus.
WordModulus == 16
\* Bytes the system heap can hand out in total.
HeapSize == 12
\* Pointers the heap can have live at once.
MaxBlocks == 2

\* Request sizes callers pass: none, small, most of the heap, and one close
\* to the top of the size_t range.
Sizes == {0, 1, 2, 5, HeapSize - 1, WordModulus - 1}
Pointers == 1..MaxBlocks
\* config.memory_limit values a descriptor may declare (0 when left unset).
MemoryLimits == {0, 5, WordModulus - 2}

AllocInit ==
    /\ mem = [memory_used |-> 0, memory_peak |-> 0, memory_limit |-> 0,
              last |-> "none"]
    /\ blocks = {}

\* pin_plugin_init_context: zeroed statistics; the limit is the one the
\* plugin's descriptor declares.
pin_plugin_init_context(limit) ==
    /\ mem.last = "none"
    /\ mem' = [memory_used |-> 0, memory_peak |-> 0, memory_limit |-> limit,
               last |-> "init"]
    /\ UNCHANGED blocks

RECURSIVE SumSizes(_)
SumSizes(bs) ==
    IF bs = {} THEN 0
    ELSE LET b == CHOOSE x \in bs : TRUE
         IN  b.size + SumSizes(bs \ {b})

\* An admission test that leaves the request size out.
MallocAllowedNoSize(used, size, limit) ==
    ~(used > limit)

\* The admission test of pin_plugin_malloc:
\* !(memory_used + size > memory_limit), in size_t arithmetic.
MallocAllowed(used, size, limit) ==
    ~((used + size) % WordModulus > limit)

\* malloc(size) of the system heap can succeed only when the bytes are there.
HeapCanServe(size) ==
    /\ SumSizes(blocks) + size <= HeapSize
    /\ \E q \in Pointers : \A b \in blocks : b.ptr # q

\* pin_plugin_malloc(ctx, size); heap_ok is what malloc answers.
pin_plugin_malloc(size, heap_ok) ==
    /\ mem.last # "none"
    /\ IF size = 0 \/ ~MallocAllowed(mem.memory_used, size, mem.memory_limit)
       THEN /\ heap_ok = FALSE
            /\ mem' = [mem EXCEPT !.last = "refused"]
            /\ UNCHANGED blocks
       ELSE IF heap_ok
       THEN /\ HeapCanServe(size)
            /\ LET q == CHOOSE x \in Pointers : \A b \in blocks : b.ptr # x
                   used == (mem.memory_used + size) % WordModulus
               IN  /\ blocks' = blocks \cup {[ptr |-> q, size |-> size]}
                   /\ mem' = [mem EXCEPT
                         !.memory_used = used,
                         !.memory_peak = IF @ > used THEN @ ELSE used,
                         !.last = "allocated"]
       ELSE /\ mem' = [mem EXCEPT !.last = "nomem"]
            /\ UNCHANGED blocks

\* pin_plugin_free(ctx, ptr, size): size is the caller's statement of the
\* block's size; ptr = 0 is NULL.
pin_plugin_free(ptr, size) ==
    /\ mem.last # "none"
    /\ IF ptr # 0 /\ size > 0
       THEN /\ \E b \in blocks : b.ptr = ptr
            /\ blocks' = {b \in blocks : b.ptr # ptr}
            /\ mem' = [mem EXCEPT
                  !.memory_used = IF @ >= size THEN @ - size ELSE 0,
                  !.last = "freed"]
       ELSE /\ mem' = [mem EXCEPT !.last = "ignored"]
            /\ UNCHANGED blocks

\* Everything outside the allocator.
notAlloc == <<dispVars, plugVars, quotaVars, canvVars, lockVars, otaVars, wifiVars,
     renderVars,
     unitVars>>

NextAlloc ==
    \/ \E limit \in MemoryLimits : pin_plugin_init_context(limit) /\ UNCHANGED notAlloc
    \/ \E size \in Sizes, heap_ok \in BOOLEAN :
          pin_plugin_malloc(size, heap_ok) /\ UNCHANGED notAlloc
    \/ \E ptr \in 0..MaxBlocks, size \in Sizes :
          pin_plugin_free(ptr, size) /\ UNCHANGED notAlloc

(***************************************************************************)
(* Canvas engine store operations (pin_canvas.c)                           *)
(***************************************************************************)

\* Capacity of the elements array: PIN_CANVAS_MAX_ELEMENTS (50 in
\* pin_canvas.h), scaled.
MaxElements == 2
\* Width in bits of the uint32_t timestamps of a canvas (32), scaled; the
\* int behind cJSON's valueint is as wide.
TimeBits == 3

\* Tasks calling the canvas API (HTTP handlers, plugins).
Clients == {"c1", "c2"}
CanvasIds == {"home"}
ElementIds == {"a", "b"}
Elements == [id : ElementIds]
NoCanvas == [id |-> "none", elements |-> <<>>]

\* Element arrays a caller or a JSON document can supply; a JSON array may be
\* one longer than the canvas can hold.
ElementArrays(n) == UNION {[1..k -> Elements] : k \in 0..n}

IdleClient ==
    [pc |-> "idle", op |-> "none", ret |-> "none", canvas |-> NoCanvas,
     element_id |-> "none", element |-> [id |-> "none"], overlapped |-> FALSE]

CanvasInit ==
    /\ nvs_canvas = [c \in CanvasIds |-> NoCanvas]
    /\ client = [t \in Clients |-> IdleClient]

\* A call that has returned: only the operation and its result stay visible.
Returned(op, ret, ov) ==
    [IdleClient EXCEPT !.op = op, !.ret = ret, !.overlapped = ov]

\* nvs_set_blob + nvs_commit of one canvas under the canvas mutex.
StoreCanvas(canvas, nvs_ok) ==
    IF nvs_ok THEN [nvs_canvas EXCEPT ![canvas.id] = canvas] ELSE nvs_canvas

NvsResult(nvs_ok) == IF nvs_ok THEN "ESP_OK" ELSE "ESP_FAIL"

\* pin_canvas_create: writes an empty canvas under the given id.
pin_canvas_create(t, id, nvs_ok) ==
    /\ client[t].pc = "idle"
    /\ nvs_canvas' = StoreCanvas([id |-> id, elements |-> <<>>], nvs_ok)
    /\ client' = [client EXCEPT ![t] = Returned("create", NvsResult(nvs_ok), FALSE)]

\* pin_canvas_delete: nvs_erase_key.
pin_canvas_delete(t, id) ==
    /\ client[t].pc = "idle"
    /\ IF nvs_canvas[id] = NoCanvas
       THEN /\ UNCHANGED nvs_canvas
            /\ client' = [client EXCEPT
                  ![t] = Returned("delete", "ESP_ERR_NVS_NOT_FOUND", FALSE)]
       ELSE /\ nvs_canvas' = [nvs_canvas EXCEPT ![id] = NoCanvas]
            /\ client' = [client EXCEPT ![t] = Returned("delete", "ESP_OK", FALSE)]

\* pin_canvas_update called directly: the caller's canvas is stored as given.
pin_canvas_update(t, canvas, nvs_ok) ==
    /\ client[t].pc = "idle"
    /\ nvs_canvas' = StoreCanvas(canvas, nvs_ok)
    /\ client' = [client EXCEPT ![t] = Returned("update", NvsResult(nvs_ok), FALSE)]

\* json_to_canvas: every member the document has is copied into the canvas
\* through the cast of its field, numbers being read from cJSON's valueint;
\* the elements array is cut at the capacity.  (A member the document lacks
\* is left out here; the code leaves it zero.)
json_to_canvas(json) ==
    LET count == IF Len(json.elements) > MaxElements
                 THEN MaxElements ELSE Len(json.elements)
        Props(e) ==
            IF e.type.valueint = 0
            THEN [text |-> e.props.text, color |-> e.props.color.valueint]
            ELSE [fill_color |-> e.props.fill_color.valueint,
                  filled |-> e.props.filled]
        Element(e) ==
            [f \in DOMAIN e |->
                CASE f = "type" -> e[f].valueint
                  [] f = "z_index" -> e[f].valueint % 256
                  [] f = "props" -> Props(e)
                  [] OTHER -> e[f]]
    IN  [f \in DOMAIN json |->
            CASE f = "elements" -> [i \in 1..count |-> Element(json.elements[i])]
              [] f = "background_color" -> json[f].valueint
              [] f \in {"created_time", "modified_time"} ->
                     json[f].valueint % (2 ^ TimeBits)
              [] OTHER -> json[f]]

\* pin_canvas_import_json: json_to_canvas, then pin_canvas_update.
pin_canvas_import_json(t, json, nvs_ok) ==
    /\ client[t].pc = "idle"
    /\ nvs_canvas' = StoreCanvas(json_to_canvas(json), nvs_ok)
    /\ client' = [client EXCEPT ![t] = Returned("import_json", NvsResult(nvs_ok), FALSE)]

ElementOps == {"add_element", "update_element", "remove_element"}

\* The pin_canvas_get that opens add_element / update_element /
\* remove_element: the canvas is copied out under the mutex, which is
\* released again before the copy is worked on.
ElementOpGet(t, op, id, element_id, element) ==
    /\ client[t].pc = "idle"
    /\ IF nvs_canvas[id] = NoCanvas
       THEN client' = [client EXCEPT
                ![t] = Returned(op, "ESP_ERR_NVS_NOT_FOUND", FALSE)]
       ELSE LET others == {u \in Clients \ {t} :
                              client[u].pc = "got" /\ client[u].canvas.id = id}
            IN  client' = [u \in Clients |->
                    IF u = t
                    THEN [pc |-> "got", op |-> op, ret |-> "none",
                          canvas |-> nvs_canvas[id], element_id |-> element_id,
                          element |-> element, overlapped |-> others # {}]
                    ELSE IF u \in others
                    THEN [client[u] EXCEPT !.overlapped = TRUE]
                    ELSE client[u]]
    /\ UNCHANGED nvs_canvas

\* Index of the first element with the given id, 0 when there is none.
FindElement(elements, element_id) ==
    IF \E i \in 1..Len(elements) : elements[i].id = element_id
    THEN CHOOSE i \in 1..Len(elements) :
            /\ elements[i].id = element_id
            /\ \A j \in 1..(i - 1) : elements[j].id # element_id
    ELSE 0

RemoveAt(elements, i) ==
    SubSeq(elements, 1, i - 1) \o SubSeq(elements, i + 1, Len(elements))

\* The checks without the loop that looks for the element's id.
AddElementCheckNoDuplicate(elements, element) ==
    IF Len(elements) >= MaxElements THEN "ESP_ERR_NO_MEM" ELSE "ESP_OK"

\* The checks of pin_canvas_add_element on the local copy.
AddElementCheck(elements, element) ==
    IF Len(elements) >= MaxElements THEN "ESP_ERR_NO_MEM"
    ELSE IF FindElement(elements, element.id) # 0 THEN "ESP_ERR_INVALID_STATE"
    ELSE "ESP_OK"

\* The check of pin_canvas_update_element on the local copy: the element
\* named by element_id must exist.
UpdateElementCheck(elements, element_id, element) ==
    IF FindElement(elements, element_id) = 0 THEN "ESP_ERR_NOT_FOUND"
    ELSE "ESP_OK"

\* The rest of an element operation: the check and the edit of the local
\* copy, then pin_canvas_update of the whole canvas.
ElementOpUpdate(t, nvs_ok) ==
    /\ client[t].pc = "got"
    /\ LET c == client[t]
           els == c.canvas.elements
           i == FindElement(els, c.element_id)
           check == CASE c.op = "add_element" -> AddElementCheck(els, c.element)
                      [] c.op = "update_element" ->
                             UpdateElementCheck(els, c.element_id, c.element)
                      [] OTHER -> IF i = 0 THEN "ESP_ERR_NOT_FOUND" ELSE "ESP_OK"
           edited == CASE c.op = "add_element" -> Append(els, c.element)
                       [] c.op = "update_element" -> [els EXCEPT ![i] = c.element]
                       [] OTHER -> RemoveAt(els, i)
       IN  IF check # "ESP_OK"
           THEN /\ nvs_ok
                /\ UNCHANGED nvs_canvas
                /\ client' = [client EXCEPT ![t] =
                      [Returned(c.op, check, c.overlapped) EXCEPT
                          !.element = c.element]]
           ELSE /\ nvs_canvas' = StoreCanvas([c.canvas EXCEPT !.elements = edited], nvs_ok)
                /\ client' = [client EXCEPT ![t] =
                      [Returned(c.op, NvsResult(nvs_ok), c.overlapped) EXCEPT
                          !.element = c.element]]

\* Everything outside the canvas engine.
notCanvas == <<dispVars, plugVars, quotaVars, memVars, lockVars, otaVars, wifiVars,
     renderVars,
     unitVars>>

NextCanvas ==
    \/ \E t \in Clients, id \in CanvasIds, ok \in BOOLEAN :
          pin_canvas_create(t, id, ok) /\ UNCHANGED notCanvas
    \/ \E t \in Clients, id \in CanvasIds : pin_canvas_delete(t, id) /\ UNCHANGED notCanvas
    \/ \E t \in Clients, id \in CanvasIds, els \in ElementArrays(MaxElements),
          ok \in BOOLEAN :
          pin_canvas_update(t, [id |-> id, elements |-> els], ok) /\ UNCHANGED notCanvas
    \/ \E t \in Clients, id \in CanvasIds, els \in ElementArrays(MaxElements + 1),
          ok \in BOOLEAN :
          pin_canvas_import_json(t, [id |-> id, elements |-> els], ok)
             /\ UNCHANGED notCanvas
    \/ \E t \in Clients, op \in ElementOps, id \in CanvasIds,
          eid \in ElementIds, e \in Elements :
          ElementOpGet(t, op, id, eid, e) /\ UNCHANGED notCanvas
    \/ \E t \in Clients, ok \in BOOLEAN : ElementOpUpdate(t, ok) /\ UNCHANGED notCanvas

\* The same calls made one after another by a single task.
NextCanvasSerial ==
    \/ \E t \in {"c1"}, id \in CanvasIds, ok \in BOOLEAN :
          pin_canvas_create(t, id, ok) /\ UNCHANGED notCanvas
    \/ \E t \in {"c1"}, id \in CanvasIds : pin_canvas_delete(t, id) /\ UNCHANGED notCanvas
    \/ \E t \in {"c1"}, id \in CanvasIds, els \in ElementArrays(MaxElements),
          ok \in BOOLEAN :
          pin_canvas_update(t, [id |-> id, elements |-> els], ok) /\ UNCHANGED notCanvas
    \/ \E t \in {"c1"}, id \in CanvasIds, els \in ElementArrays(MaxElements + 1),
          ok \in BOOLEAN :
          pin_canvas_import_json(t, [id |-> id, elements |-> els], ok)
             /\ UNCHANGED notCanvas
    \/ \E t \in {"c1"}, op \in ElementOps, id \in CanvasIds,
          eid \in ElementIds, e \in Elements :
          ElementOpGet(t, op, id, eid, e) /\ UNCHANGED notCanvas
    \/ \E t \in {"c1"}, ok \in BOOLEAN : ElementOpUpdate(t, ok) /\ UNCHANGED notCanvas

(***************************************************************************)
(* Canvas engine mutex (handle->mutex of pin_canvas.c)                     *)
(***************************************************************************)

\* The operations of pin_canvas.c that run under handle->mutex.
CanvasLockedOps == {"create", "delete", "get", "update", "store_image",
                    "delete_image", "render", "list"}

NotLocking == [pc |-> "idle", op |-> "none", deadline |-> "none"]

CanvasLockInit ==
    /\ canvas_mutex = "free"
    /\ canvas_lock = [t \in Clients |-> NotLocking]

\* xSemaphoreTake(handle->mutex, portMAX_DELAY) of an operation: the caller
\* gets the mutex when it is free and blocks otherwise.
canvas_mutex_take(t, op) ==
    /\ canvas_lock[t].pc = "idle"
    /\ IF canvas_mutex = "free"
       THEN /\ canvas_mutex' = t
            /\ canvas_lock' = [canvas_lock EXCEPT
                  ![t] = [pc |-> "holding", op |-> op, deadline |-> "none"]]
       ELSE /\ UNCHANGED canvas_mutex
            /\ canvas_lock' = [canvas_lock EXCEPT
                  ![t] = [pc |-> "waiting", op |-> op,
                          deadline |-> "portMAX_DELAY"]]

\* A blocked xSemaphoreTake returns once the mutex has been given.
canvas_mutex_acquire(t) ==
    /\ canvas_lock[t].pc = "waiting"
    /\ canvas_mutex = "free"
    /\ canvas_mutex' = t
    /\ canvas_lock' = [canvas_lock EXCEPT ![t].pc = "holding",
                                          ![t].deadline = "none"]

\* xSemaphoreGive(handle->mutex) at the end of the operation.
canvas_mutex_give(t) ==
    /\ canvas_lock[t].pc = "holding"
    /\ canvas_mutex' = "free"
    /\ canvas_lock' = [canvas_lock EXCEPT ![t] = NotLocking]

\* Everything outside the canvas mutex.
notLock == <<dispVars, plugVars, quotaVars, memVars, canvVars, otaVars, wifiVars,
     renderVars,
     unitVars>>

NextCanvasMutex ==
    \/ \E t \in Clients, op \in CanvasLockedOps :
          canvas_mutex_take(t, op) /\ UNCHANGED notLock
    \/ \E t \in Clients : canvas_mutex_acquire(t) /\ UNCHANGED notLock
    \/ \E t \in Clients : canvas_mutex_give(t) /\ UNCHANGED notLock

(***************************************************************************)
(* OTA engine (pin_ota.c)                                                  *)
(***************************************************************************)

\* Task slots xTaskCreate can fill with ota_update_task.
MaxOtaTasks == 2
\* Chunks one download can take before its last one.
MaxChunks == 2
\* Accepted pin_ota_start_update calls in one behaviour.
MaxStarts == 2

OtaTaskIds == 1..MaxOtaTasks
\* Callers of pin_ota_check_update: the auto-check timer and an API task.
OtaCheckers == {"timer"}

NoOtaTask ==
    [pc |-> "none", handle |-> "none", err |-> "none", chunks |-> 0,
     cancelled |-> FALSE, saw_cancel |-> FALSE, outcome |-> "none"]

OtaInit ==
    /\ g_ota_status = [state |-> "IDLE", progress_percent |-> 0,
                       update_available |-> FALSE,
                       error_message |-> <<"", "">>]
    /\ cancel_bit = FALSE
    /\ ota_tasks = [w \in OtaTaskIds |-> NoOtaTask]
    /\ ota_checker = [c \in OtaCheckers |-> "idle"]
    /\ ota_env = [callbacks |-> <<>>, rebooted |-> FALSE,
                  boot_partition |-> "running", starts |-> 0]

LiveOtaTasks == {w \in OtaTaskIds : ota_tasks[w].pc \notin {"none", "done"}}

\* pin_ota_check_update, entry: the state becomes Checking.
CheckUpdateBegin(c) ==
    /\ ~ota_env.rebooted
    /\ ota_checker[c] = "idle"
    /\ ota_checker' = [ota_checker EXCEPT ![c] = "checking"]
    /\ g_ota_status' = [g_ota_status EXCEPT !.state = "CHECKING"]
    /\ UNCHANGED <<cancel_bit, ota_tasks, ota_env>>

\* pin_ota_check_update, exit: answer is "newer", "same" or "failed".
CheckUpdateEnd(c, answer) ==
    /\ ~ota_env.rebooted
    /\ ota_checker[c] = "checking"
    /\ ota_checker' = [ota_checker EXCEPT ![c] = "idle"]
    /\ g_ota_status' =
          IF answer = "failed"
          THEN [g_ota_status EXCEPT !.state = "ERROR",
                   !.error_message = <<"Update check failed", "ESP_FAIL">>]
          ELSE [g_ota_status EXCEPT !.state = "IDLE",
                   !.update_available = (answer = "newer")]
    /\ UNCHANGED <<cancel_bit, ota_tasks, ota_env>>

\* The two tests of pin_ota_start_update.
StartUpdateResult(status) ==
    IF ~status.update_available THEN "ESP_ERR_INVALID_STATE"
    ELSE IF status.state # "IDLE" THEN "ESP_ERR_INVALID_STATE"
    ELSE "ESP_OK"

\* pin_ota_start_update that passes its tests: xTaskCreate(ota_update_task).
\* g_ota_status is left as it is.
pin_ota_start_update ==
    /\ ~ota_env.rebooted
    /\ StartUpdateResult(g_ota_status) = "ESP_OK"
    /\ ota_env.starts < MaxStarts
    /\ \E w \in OtaTaskIds :
          /\ ota_tasks[w].pc \in {"none", "done"}
          /\ \A v \in OtaTaskIds : ota_tasks[v].pc \in {"none", "done"} => w <= v
          /\ ota_tasks' = [ota_tasks EXCEPT ![w] = [NoOtaTask EXCEPT !.pc = "created"]]
    /\ ota_env' = [ota_env EXCEPT !.starts = @ + 1]
    /\ UNCHANGED <<g_ota_status, cancel_bit, ota_checker>>

\* pin_ota_cancel_update that passes its state test: sets OTA_CANCEL_BIT.
pin_ota_cancel_update ==
    /\ ~ota_env.rebooted
    /\ g_ota_status.state \in {"DOWNLOADING", "INSTALLING"}
    /\ cancel_bit' = TRUE
    /\ ota_tasks' = [w \in OtaTaskIds |->
          IF ota_tasks[w].pc \notin {"none", "done", "created", "reboot_wait"}
          THEN [ota_tasks[w] EXCEPT !.cancelled = TRUE]
          ELSE ota_tasks[w]]
    /\ UNCHANGED <<g_ota_status, ota_checker, ota_env>>

\* download_and_install_update, entry.
DownloadStart(w) ==
    /\ ~ota_env.rebooted
    /\ ota_tasks[w].pc = "created"
    /\ g_ota_status' = [g_ota_status EXCEPT !.state = "DOWNLOADING",
                                            !.progress_percent = 0]
    /\ ota_tasks' = [ota_tasks EXCEPT ![w].pc = "begin"]
    /\ UNCHANGED <<cancel_bit, ota_checker, ota_env>>

\* esp_https_ota_begin: on failure the function returns err at once.
HttpsOtaBegin(w, ok) ==
    /\ ~ota_env.rebooted
    /\ ota_tasks[w].pc = "begin"
    /\ ota_tasks' = [ota_tasks EXCEPT ![w] =
          IF ok THEN [@ EXCEPT !.pc = "img_desc", !.handle = "BEGIN", !.err = "ESP_OK"]
          ELSE [@ EXCEPT !.pc = "report", !.err = "ESP_FAIL"]]
    /\ UNCHANGED <<g_ota_status, cancel_bit, ota_checker, ota_env>>

\* esp_https_ota_get_img_desc: failure jumps to ota_end, success sets the
\* state Installing and enters the chunk loop.
HttpsOtaGetImgDesc(w, ok) ==
    /\ ~ota_env.rebooted
    /\ ota_tasks[w].pc = "img_desc"
    /\ IF ok
       THEN /\ g_ota_status' = [g_ota_status EXCEPT !.state = "INSTALLING"]
            /\ ota_tasks' = [ota_tasks EXCEPT ![w].pc = "check"]
       ELSE /\ ota_tasks' = [ota_tasks EXCEPT ![w].pc = "finish", ![w].err = "ESP_FAIL"]
            /\ UNCHANGED g_ota_status
    /\ UNCHANGED <<cancel_bit, ota_checker, ota_env>>

\* Top of the chunk loop: xEventGroupWaitBits(OTA_CANCEL_BIT, clear on exit).
CheckCancel(w) ==
    /\ ~ota_env.rebooted
    /\ ota_tasks[w].pc = "check"
    /\ IF cancel_bit
       THEN /\ cancel_bit' = FALSE
            /\ ota_tasks' = [ota_tasks EXCEPT ![w].pc = "after_loop",
                                              ![w].saw_cancel = TRUE,
                                              ![w].err = "ESP_ERR_INVALID_STATE"]
       ELSE /\ ota_tasks' = [ota_tasks EXCEPT ![w].pc = "perform"]
            /\ UNCHANGED cancel_bit
    /\ UNCHANGED <<g_ota_status, ota_checker, ota_env>>

\* esp_https_ota_perform: another chunk (IN_PROGRESS, with the progress
\* update), the last chunk (ESP_OK), or a failure; a failure of the first
\* call can leave the handle where esp_https_ota_begin put it.
HttpsOtaPerform(w, result, opened) ==
    /\ ~ota_env.rebooted
    /\ ota_tasks[w].pc = "perform"
    /\ result = "ESP_ERR_HTTPS_OTA_IN_PROGRESS" => ota_tasks[w].chunks < MaxChunks
    /\ (result = "ESP_FAIL" /\ ota_tasks[w].handle = "BEGIN") \/ opened
    /\ ota_tasks' = [ota_tasks EXCEPT ![w] =
          CASE result = "ESP_ERR_HTTPS_OTA_IN_PROGRESS" ->
                  [@ EXCEPT !.pc = "check", !.handle = "IN_PROGRESS",
                            !.err = result, !.chunks = @ + 1]
            [] result = "ESP_OK" ->
                  [@ EXCEPT !.pc = "after_loop", !.handle = "SUCCESS", !.err = result]
            [] OTHER ->
                  [@ EXCEPT !.pc = "after_loop", !.err = result,
                            !.handle = IF opened THEN "IN_PROGRESS" ELSE @]]
    /\ g_ota_status' =
          IF result = "ESP_ERR_HTTPS_OTA_IN_PROGRESS"
          THEN [g_ota_status EXCEPT
                   !.progress_percent = ((ota_tasks[w].chunks + 1) * 100) \div (MaxChunks + 1)]
          ELSE g_ota_status
    /\ UNCHANGED <<cancel_bit, ota_checker, ota_env>>

\* After the loop: esp_https_ota_is_complete_data_received.
AfterLoop(w) ==
    /\ ~ota_env.rebooted
    /\ ota_tasks[w].pc = "after_loop"
    /\ ota_tasks' = [ota_tasks EXCEPT ![w].pc = "finish",
          ![w].err = IF ota_tasks[w].handle # "SUCCESS"
                     THEN "ESP_ERR_INVALID_SIZE" ELSE @]
    /\ UNCHANGED <<g_ota_status, cancel_bit, ota_checker, ota_env>>

\* esp_https_ota_finish as called at ota_end: a handle that never started
\* writing is only released (ESP_OK); otherwise the image is validated, which
\* a partial image fails, and a validated complete image becomes the boot
\* partition.
esp_https_ota_finish(handle, valid) ==
    CASE handle = "BEGIN" -> "ESP_OK"
      [] handle = "SUCCESS" /\ valid -> "ESP_OK"
      [] OTHER -> "ESP_ERR_OTA_VALIDATE_FAILED"

\* The value download_and_install_update returns at ota_end.
OtaEndResult(err, ota_finish_err) ==
    IF err = "ESP_OK" /\ ota_finish_err = "ESP_OK" THEN "ESP_OK"
    ELSE ota_finish_err

\* ota_end: esp_https_ota_finish and the return value.
OtaEnd(w, valid) ==
    /\ ~ota_env.rebooted
    /\ ota_tasks[w].pc = "finish"
    /\ valid \/ ota_tasks[w].handle = "SUCCESS"
    /\ LET ota_finish_err == esp_https_ota_finish(ota_tasks[w].handle, valid)
       IN  /\ ota_tasks' = [ota_tasks EXCEPT ![w].pc = "report",
                 ![w].outcome = IF ota_tasks[w].handle = "SUCCESS" /\ valid
                                THEN "validated" ELSE "not_validated",
                 ![w].err = OtaEndResult(ota_tasks[w].err, ota_finish_err)]
           /\ ota_env' = [ota_env EXCEPT !.boot_partition =
                 IF ota_tasks[w].handle = "SUCCESS" /\ valid THEN "update" ELSE @]
    /\ UNCHANGED <<g_ota_status, cancel_bit, ota_checker>>

\* ota_update_task after download_and_install_update returned.
OtaReport(w) ==
    /\ ~ota_env.rebooted
    /\ ota_tasks[w].pc = "report"
    /\ IF ota_tasks[w].err = "ESP_OK"
       THEN /\ g_ota_status' = [g_ota_status EXCEPT !.state = "COMPLETE",
                                                    !.progress_percent = 100]
            /\ ota_env' = [ota_env EXCEPT !.callbacks = Append(@, TRUE)]
            /\ ota_tasks' = [ota_tasks EXCEPT ![w].pc = "reboot_wait"]
       ELSE /\ g_ota_status' = [g_ota_status EXCEPT !.state = "ERROR",
                   !.error_message = <<"Update failed", ota_tasks[w].err>>]
            /\ ota_env' = [ota_env EXCEPT !.callbacks = Append(@, FALSE)]
            /\ ota_tasks' = [ota_tasks EXCEPT ![w].pc = "done"]
    /\ UNCHANGED <<cancel_bit, ota_checker>>

\* vTaskDelay(3000) is over: esp_restart.
OtaRestart(w) ==
    /\ ~ota_env.rebooted
    /\ ota_tasks[w].pc = "reboot_wait"
    /\ ota_env' = [ota_env EXCEPT !.rebooted = TRUE]
    /\ UNCHANGED <<g_ota_status, cancel_bit, ota_tasks, ota_checker>>

PerformResults == {"ESP_ERR_HTTPS_OTA_IN_PROGRESS", "ESP_OK", "ESP_FAIL"}

\* Everything outside the OTA engine.
notOta == <<dispVars, plugVars, quotaVars, memVars, canvVars, lockVars, wifiVars,
     renderVars,
     unitVars>>

NextOta ==
    \/ \E c \in OtaCheckers : CheckUpdateBegin(c) /\ UNCHANGED notOta
    \/ \E c \in OtaCheckers, a \in {"newer", "same", "failed"} :
          CheckUpdateEnd(c, a) /\ UNCHANGED notOta
    \/ pin_ota_start_update /\ UNCHANGED notOta
    \/ pin_ota_cancel_update /\ UNCHANGED notOta
    \/ \E w \in OtaTaskIds : DownloadStart(w) /\ UNCHANGED notOta
    \/ \E w \in OtaTaskIds, ok \in BOOLEAN : HttpsOtaBegin(w, ok) /\ UNCHANGED notOta
    \/ \E w \in OtaTaskIds, ok \in BOOLEAN : HttpsOtaGetImgDesc(w, ok) /\ UNCHANGED notOta
    \/ \E w \in OtaTaskIds : CheckCancel(w) /\ UNCHANGED notOta
    \/ \E w \in OtaTaskIds, r \in PerformResults, o \in BOOLEAN :
          HttpsOtaPerform(w, r, o) /\ UNCHANGED notOta
    \/ \E w \in OtaTaskIds : AfterLoop(w) /\ UNCHANGED notOta
    \/ \E w \in OtaTaskIds, v \in BOOLEAN : OtaEnd(w, v) /\ UNCHANGED notOta
    \/ \E w \in OtaTaskIds : OtaReport(w) /\ UNCHANGED notOta
    \/ \E w \in OtaTaskIds : OtaRestart(w) /\ UNCHANGED notOta

(***************************************************************************)
(* Specifications                                                          *)
(***************************************************************************)

(***************************************************************************)
(* Wi-Fi provisioning state machine (wifi-configuration.md, pin_wifi.h)    *)
(***************************************************************************)

\* Largest max_retry a build configures.
MaxRetry == 2

\* Credentials: one set the access point accepts, one it rejects.
Creds == {"good", "bad"}

\* Before pin_wifi_config_task runs: g_wifi_config = {0}, nothing started.
WifiInit ==
    /\ g_wifi_config = [state |-> "OFF", retry_count |-> 0, max_retry |-> 0,
                        config_received |-> FALSE, force_ap_mode |-> FALSE,
                        target |-> "none"]
    /\ connect_started = FALSE
    /\ wifi_event_group = {}
    /\ wifi_nvs = "none"
    /\ wifi_env = [ap_up |-> FALSE, link |-> "none", attempt |-> "none",
                   accepted |-> "none", portal |-> FALSE, fresh |-> FALSE]

\* The task is created: state is WIFI_CONFIG_STATE_IDLE (0). What the device
\* boots with: the credentials left in NVS by an earlier run, the
\* force-AP flag, max_retry (0 unless the build assigns it), and whether
\* the access point is up.
pin_wifi_config_task(saved, force, max_retry, ap_up) ==
    /\ g_wifi_config.state = "OFF"
    /\ g_wifi_config' = [g_wifi_config EXCEPT !.state = "IDLE",
                                              !.force_ap_mode = force,
                                              !.max_retry = max_retry]
    /\ wifi_nvs' = saved
    /\ wifi_env' = [wifi_env EXCEPT !.ap_up = ap_up]
    /\ UNCHANGED <<connect_started, wifi_event_group>>

wifi_handle_idle_state ==
    /\ g_wifi_config.state = "IDLE"
    /\ g_wifi_config' = [g_wifi_config EXCEPT !.state = "CHECK_SAVED"]
    /\ UNCHANGED <<connect_started, wifi_event_group, wifi_nvs, wifi_env>>

\* pin_wifi_has_saved_config() && !force_ap_mode: load and connect, else AP.
wifi_handle_check_saved_state ==
    /\ g_wifi_config.state = "CHECK_SAVED"
    /\ g_wifi_config' =
          IF wifi_nvs # "none" /\ ~g_wifi_config.force_ap_mode
          THEN [g_wifi_config EXCEPT !.target = wifi_nvs, !.state = "CONNECTING"]
          ELSE [g_wifi_config EXCEPT !.state = "AP_MODE"]
    /\ UNCHANGED <<connect_started, wifi_event_group, wifi_nvs, wifi_env>>

\* esp_wifi_set_mode(WIFI_MODE_AP) followed by esp_wifi_start: the station
\* interface goes away, and a pending attempt with it.
StopStation(env) ==
    [env EXCEPT !.link = "none", !.attempt = "none"]

\* pin_wifi_start_ap_mode, then pin_wifi_start_config_portal; either may
\* fail (esp_wifi_start, httpd_start).
wifi_handle_ap_mode_state(ap_ok, portal_ok) ==
    /\ g_wifi_config.state = "AP_MODE"
    /\ ~ap_ok => portal_ok
    /\ IF ap_ok /\ portal_ok
       THEN /\ g_wifi_config' = [g_wifi_config EXCEPT !.state = "PORTAL_ACTIVE"]
            /\ wifi_env' = [StopStation(wifi_env) EXCEPT !.portal = TRUE]
       ELSE /\ g_wifi_config' = [g_wifi_config EXCEPT !.state = "FAILED"]
            /\ wifi_env' = IF ap_ok THEN StopStation(wifi_env) ELSE wifi_env
    /\ UNCHANGED <<connect_started, wifi_event_group, wifi_nvs>>

\* timed_out: elapsed_time > config_timeout_ms.
wifi_handle_portal_active_state(timed_out) ==
    /\ g_wifi_config.state = "PORTAL_ACTIVE"
    /\ IF g_wifi_config.config_received
       THEN /\ timed_out = FALSE
            /\ g_wifi_config' = [g_wifi_config EXCEPT !.state = "CONNECTING"]
            /\ wifi_env' = [wifi_env EXCEPT !.portal = FALSE, !.fresh = FALSE]
       ELSE /\ timed_out = TRUE
            /\ g_wifi_config' = [g_wifi_config EXCEPT !.state = "TIMEOUT"]
            /\ UNCHANGED wifi_env
    /\ UNCHANGED <<connect_started, wifi_event_group, wifi_nvs>>

\* The station attempt as the first call of the handler starts it:
\* esp_wifi_set_mode(WIFI_MODE_STA), esp_wifi_set_config, esp_wifi_connect.
StartAttempt(env, target) ==
    [env EXCEPT !.link = "none", !.attempt = target, !.accepted = "none"]

\* pin_wifi_save_config: nvs_set_str + nvs_commit; the result is not looked at.
pin_wifi_save_config(cred, nvs_ok) ==
    IF nvs_ok THEN cred ELSE wifi_nvs

\* One call of wifi_handle_connecting_state. timed_out: elapsed_time >
\* connect_timeout_ms (never on the call that starts the attempt, where the
\* elapsed time is 0). xEventGroupWaitBits(..., pdTRUE, pdFALSE, 0) returns
\* the bits and clears both when either is set.
wifi_handle_connecting_state(timed_out, nvs_ok) ==
    /\ g_wifi_config.state = "CONNECTING"
    /\ ~connect_started => ~timed_out
    /\ wifi_event_group' = {}
    /\ LET env == IF connect_started THEN wifi_env
                  ELSE StartAttempt(wifi_env, g_wifi_config.target)
           bits == wifi_event_group
       IN  IF "WIFI_CONNECTED_BIT" \in bits
           THEN /\ timed_out = FALSE
                /\ wifi_nvs' = pin_wifi_save_config(g_wifi_config.target, nvs_ok)
                /\ g_wifi_config' = [g_wifi_config EXCEPT !.retry_count = 0,
                                                          !.state = "CONNECTED"]
                /\ connect_started' = FALSE
                /\ wifi_env' = env
           ELSE IF "WIFI_FAIL_BIT" \in bits \/ timed_out
           THEN /\ nvs_ok
                /\ "WIFI_FAIL_BIT" \in bits => ~timed_out
                /\ g_wifi_config' = [g_wifi_config EXCEPT
                                        !.retry_count = (@ + 1) % 256,
                                        !.state = "FAILED"]
                /\ connect_started' = FALSE
                /\ wifi_env' = env
                /\ UNCHANGED wifi_nvs
           ELSE /\ nvs_ok
                /\ connect_started' = TRUE
                /\ wifi_env' = env
                /\ UNCHANGED <<g_wifi_config, wifi_nvs>>

\* pin_wifi_is_connected() is false: back to connecting.
wifi_handle_connected_state ==
    /\ g_wifi_config.state = "CONNECTED"
    /\ wifi_env.link = "none"
    /\ g_wifi_config' = [g_wifi_config EXCEPT !.state = "CONNECTING"]
    /\ UNCHANGED <<connect_started, wifi_event_group, wifi_nvs, wifi_env>>

wifi_handle_failed_state ==
    /\ g_wifi_config.state = "FAILED"
    /\ g_wifi_config' =
          IF g_wifi_config.retry_count < g_wifi_config.max_retry
          THEN [g_wifi_config EXCEPT !.state = "CONNECTING"]
          ELSE [g_wifi_config EXCEPT !.retry_count = 0, !.state = "AP_MODE"]
    /\ UNCHANGED <<connect_started, wifi_event_group, wifi_nvs, wifi_env>>

\* pin_wifi_stop_config_portal, 3 s of display, back to AP mode.
wifi_handle_timeout_state ==
    /\ g_wifi_config.state = "TIMEOUT"
    /\ g_wifi_config' = [g_wifi_config EXCEPT !.state = "AP_MODE"]
    /\ wifi_env' = [wifi_env EXCEPT !.portal = FALSE]
    /\ UNCHANGED <<connect_started, wifi_event_group, wifi_nvs>>

\* POST /api/wifi/connect on the portal's server while it runs. fresh
\* records that credentials were submitted and no attempt has used them yet.
wifi_connect_handler(cred) ==
    /\ wifi_env.portal
    /\ g_wifi_config' = [g_wifi_config EXCEPT !.target = cred,
                                              !.config_received = TRUE]
    /\ wifi_env' = [wifi_env EXCEPT !.fresh = TRUE]
    /\ UNCHANGED <<connect_started, wifi_event_group, wifi_nvs>>

\* The outcome of a station attempt reaches the event group: got-IP when
\* the access point is up and accepts the credentials, disconnected/fail
\* otherwise.
LinkOutcome ==
    /\ wifi_env.attempt # "none"
    /\ IF wifi_env.ap_up /\ wifi_env.attempt = "good"
       THEN /\ wifi_event_group' = wifi_event_group \cup {"WIFI_CONNECTED_BIT"}
            /\ wifi_env' = [wifi_env EXCEPT !.link = wifi_env.attempt,
                                            !.accepted = wifi_env.attempt,
                                            !.attempt = "none"]
       ELSE /\ wifi_event_group' = wifi_event_group \cup {"WIFI_FAIL_BIT"}
            /\ wifi_env' = [wifi_env EXCEPT !.attempt = "none"]
    /\ UNCHANGED <<g_wifi_config, connect_started, wifi_nvs>>

\* The access point comes up and stays up.
ApUp ==
    /\ g_wifi_config.state # "OFF"
    /\ ~wifi_env.ap_up
    /\ wifi_env' = [wifi_env EXCEPT !.ap_up = TRUE]
    /\ UNCHANGED <<g_wifi_config, connect_started, wifi_event_group, wifi_nvs>>

\* The station loses its association.
LinkLost ==
    /\ wifi_env.link # "none"
    /\ wifi_env' = [wifi_env EXCEPT !.link = "none"]
    /\ UNCHANGED <<g_wifi_config, connect_started, wifi_event_group, wifi_nvs>>

\* An access point that cooperates answers a station holding valid
\* credentials before connect_timeout_ms has passed (and beside it the
\* device's own access point and portal start without error).
CooperatingAp(timed_out) ==
    timed_out => ~(wifi_env.ap_up /\ wifi_env.attempt = "good")

\* Everything outside the Wi-Fi state machine.
notWifi == <<dispVars, plugVars, quotaVars, memVars, canvVars, lockVars, otaVars,
     renderVars,
     unitVars>>

\* One pass of the loop of pin_wifi_config_task: the handler of the state.
WifiTick(cooperating) ==
    \/ wifi_handle_idle_state
    \/ wifi_handle_check_saved_state
    \/ \E ap_ok, portal_ok \in BOOLEAN :
          /\ cooperating => ap_ok /\ portal_ok
          /\ wifi_handle_ap_mode_state(ap_ok, portal_ok)
    \/ \E timed_out \in BOOLEAN : wifi_handle_portal_active_state(timed_out)
    \/ \E timed_out, nvs_ok \in BOOLEAN :
          /\ cooperating => CooperatingAp(timed_out)
          /\ wifi_handle_connecting_state(timed_out, nvs_ok)
    \/ wifi_handle_connected_state
    \/ wifi_handle_failed_state
    \/ wifi_handle_timeout_state

NextWifi ==
    \/ \E saved \in Creds \cup {"none"}, force, ap_up \in BOOLEAN,
          max_retry \in 0..MaxRetry :
          pin_wifi_config_task(saved, force, max_retry, ap_up) /\ UNCHANGED notWifi
    \/ wifi_handle_idle_state /\ UNCHANGED notWifi
    \/ wifi_handle_check_saved_state /\ UNCHANGED notWifi
    \/ \E ap_ok, portal_ok \in BOOLEAN :
          wifi_handle_ap_mode_state(ap_ok, portal_ok) /\ UNCHANGED notWifi
    \/ \E timed_out \in BOOLEAN :
          wifi_handle_portal_active_state(timed_out) /\ UNCHANGED notWifi
    \/ \E timed_out, nvs_ok \in BOOLEAN :
          wifi_handle_connecting_state(timed_out, nvs_ok) /\ UNCHANGED notWifi
    \/ wifi_handle_connected_state /\ UNCHANGED notWifi
    \/ wifi_handle_failed_state /\ UNCHANGED notWifi
    \/ wifi_handle_timeout_state /\ UNCHANGED notWifi
    \/ \E cred \in Creds : wifi_connect_handler(cred) /\ UNCHANGED notWifi
    \/ LinkOutcome /\ UNCHANGED notWifi
    \/ ApUp /\ UNCHANGED notWifi
    \/ LinkLost /\ UNCHANGED notWifi

\* The same machine beside an access point that cooperates.
NextWifiFair ==
    \/ \E saved \in Creds \cup {"none"}, force, ap_up \in BOOLEAN,
          max_retry \in 0..MaxRetry :
          pin_wifi_config_task(saved, force, max_retry, ap_up) /\ UNCHANGED notWifi
    \/ WifiTick(TRUE) /\ UNCHANGED notWifi
    \/ \E cred \in Creds : wifi_connect_handler(cred) /\ UNCHANGED notWifi
    \/ LinkOutcome /\ UNCHANGED notWifi
    \/ ApUp /\ UNCHANGED notWifi
    \/ LinkLost /\ UNCHANGED notWifi

(***************************************************************************)
(* Canvas renderer (pin_canvas_render and the draw primitives)             *)
(***************************************************************************)

\* PIN_CANVAS_WIDTH x PIN_CANVAS_HEIGHT (600 x 448), scaled.
GridWidth == 3
GridHeight == 2
\* Elements of a canvas handed to the renderer.
MaxRenderElements == 3

\* Bounds of the rectangles: two that overlap in one column, both reaching
\* below the last row.
RenderRects == {[x |-> 0, y |-> 0, width |-> 2, height |-> 2],
                [x |-> 1, y |-> 0, width |-> 2, height |-> 2]}

\* Filled rectangles without border.
RenderElements ==
    [bounds : RenderRects, z_index : 1..2, visible : BOOLEAN,
     fill_color : {"RED", "BLUE"}]

RenderCanvases ==
    [background_color : {"WHITE"},
     elements : UNION {[1..n -> RenderElements] : n \in 0..MaxRenderElements}]

RenderInit ==
    render = [called |-> FALSE,
              canvas |-> [background_color |-> "WHITE", elements |-> <<>>],
              buffer |-> <<>>]

\* memset(buffer, background_color, WIDTH * HEIGHT); cells are 0-based.
ClearBuffer(color) == [i \in 0..(GridWidth * GridHeight - 1) |-> color]

\* The comparison that makes the bubble sort swap on equal z_index too.
SortSwapsOrEqual(a, b) == a.z_index >= b.z_index

\* The comparison of the bubble sort: swap when the left z_index is greater.
SortSwaps(a, b) == a.z_index > b.z_index

\* The inner loop of the bubble sort from position j (1-based) to last.
RECURSIVE BubblePass(_, _, _)
BubblePass(sorted, j, last) ==
    IF j > last THEN sorted
    ELSE IF SortSwaps(sorted[j], sorted[j + 1])
         THEN BubblePass([sorted EXCEPT ![j] = sorted[j + 1],
                                        ![j + 1] = sorted[j]], j + 1, last)
         ELSE BubblePass(sorted, j + 1, last)

\* The outer loop: pass i (0-based) runs over j < element_count - i - 1.
RECURSIVE BubbleSort(_, _)
BubbleSort(sorted, i) ==
    IF i >= Len(sorted) - 1 THEN sorted
    ELSE BubbleSort(BubblePass(sorted, 1, Len(sorted) - i - 1), i + 1)

\* draw_pixel: writes inside the canvas only.
draw_pixel(buffer, x, y, color) ==
    IF x >= 0 /\ x < GridWidth /\ y >= 0 /\ y < GridHeight
    THEN [buffer EXCEPT ![y * GridWidth + x] = color]
    ELSE buffer

\* draw_rect, filled: the row loop from column x.
RECURSIVE DrawRow(_, _, _, _, _)
DrawRow(buffer, x, y, rect, color) ==
    IF x >= rect.x + rect.width THEN buffer
    ELSE DrawRow(draw_pixel(buffer, x, y, color), x + 1, y, rect, color)

RECURSIVE draw_rect(_, _, _, _)
draw_rect(buffer, y, rect, color) ==
    IF y >= rect.y + rect.height THEN buffer
    ELSE draw_rect(DrawRow(buffer, rect.x, y, rect, color), y + 1, rect, color)

\* render_shape_element for PIN_CANVAS_ELEMENT_RECT, border_width 0.
render_shape_element(buffer, element) ==
    draw_rect(buffer, element.bounds.y, element.bounds, element.fill_color)

\* The drawing loop over the sorted references, invisible ones skipped.
RECURSIVE RenderLoop(_, _, _)
RenderLoop(buffer, sorted, i) ==
    IF i > Len(sorted) THEN buffer
    ELSE IF ~sorted[i].visible THEN RenderLoop(buffer, sorted, i + 1)
    ELSE RenderLoop(render_shape_element(buffer, sorted[i]), sorted, i + 1)

\* pin_canvas_render of a stored canvas into the caller's buffer.
pin_canvas_render(canvas) ==
    render' = [called |-> TRUE, canvas |-> canvas,
               buffer |-> RenderLoop(ClearBuffer(canvas.background_color),
                                     BubbleSort(canvas.elements, 0), 1)]

\* Everything outside the renderer.
notRender == <<dispVars, plugVars, quotaVars, memVars, canvVars, lockVars, otaVars,
     wifiVars,
     unitVars>>

\* One call is followed: its result depends on nothing but the canvas.
NextRender ==
    \/ /\ ~render.called
       /\ \E canvas \in RenderCanvases :
             pin_canvas_render(canvas) /\ UNCHANGED notRender

(***************************************************************************)
(* Panel driver framebuffer (fpc_a005.c)                                   *)
(***************************************************************************)

\* fpc_a005_color_t values the callers write: WHITE and RED.
PanelColors == {1, 2}

\* set_pixel calls followed in one run.
MaxPixelWrites == 3

NoPixelOp == [op |-> "none"]

\* fpc_a005_init: FPC_A005_BUFFER_SIZE bytes (two pixels per byte) of 0x11,
\* bytes 0-based.
PanelInit ==
    panel = [framebuffer |-> [b \in 0..((GridWidth * GridHeight) \div 2 - 1) |-> 17],
             set |-> NoPixelOp, got |-> NoPixelOp, writes |-> 0,
             sent |-> [mode |-> "none"], display |-> [ret |-> "none"]]

\* A nibble choice that is the wrong way round: even pixel indexes fill the
\* low nibble.
SetPixelLowNibbleFirst(framebuffer, x, y, color) ==
    IF x >= GridWidth \/ y >= GridHeight THEN framebuffer
    ELSE LET pixel_index == y * GridWidth + x
             byte_index == pixel_index \div 2
             old == framebuffer[byte_index]
         IN  IF pixel_index % 2 = 1
             THEN [framebuffer EXCEPT
                     ![byte_index] = ((old % 16) + color * 16) % 256]
             ELSE [framebuffer EXCEPT
                     ![byte_index] = (old \div 16) * 16 + (color % 16)]

\* fpc_a005_set_pixel_in_buffer: even pixel indexes fill the high nibble.
fpc_a005_set_pixel_in_buffer(framebuffer, x, y, color) ==
    IF x >= GridWidth \/ y >= GridHeight THEN framebuffer
    ELSE LET pixel_index == y * GridWidth + x
             byte_index == pixel_index \div 2
             old == framebuffer[byte_index]
         IN  IF pixel_index % 2 = 0
             THEN [framebuffer EXCEPT
                     ![byte_index] = ((old % 16) + color * 16) % 256]
             ELSE [framebuffer EXCEPT
                     ![byte_index] = (old \div 16) * 16 + (color % 16)]

\* fpc_a005_get_pixel_from_buffer: WHITE outside the panel.
fpc_a005_get_pixel_from_buffer(framebuffer, x, y) ==
    IF x >= GridWidth \/ y >= GridHeight THEN 1
    ELSE LET pixel_index == y * GridWidth + x
             byte_index == pixel_index \div 2
         IN  IF pixel_index % 2 = 0
             THEN (framebuffer[byte_index] \div 16) % 16
             ELSE framebuffer[byte_index] % 16

\* fpc_a005_set_pixel on an initialised handle.
fpc_a005_set_pixel(x, y, color) ==
    LET written == fpc_a005_set_pixel_in_buffer(panel.framebuffer, x, y, color)
    IN  panel' = [panel EXCEPT
                    !.framebuffer = written,
                    !.set = [op |-> "set_pixel", x |-> x, y |-> y, color |-> color,
                             ret |-> "ESP_OK",
                             changed |-> written # panel.framebuffer],
                    !.got = NoPixelOp,
                    !.writes = panel.writes + 1]

\* fpc_a005_get_pixel on an initialised handle.
fpc_a005_get_pixel(x, y) ==
    panel' = [panel EXCEPT
                !.got = [op |-> "get_pixel", x |-> x, y |-> y, ret |-> "ESP_OK",
                         color |-> fpc_a005_get_pixel_from_buffer(
                                       panel.framebuffer, x, y)]]

\* Everything outside the panel driver.
notPanel == <<coreVars, json_rt, registry, http, update_check, boot, refresher, driver, refresh_calls>>

\* Coordinates are uint16_t: the panel's, and one column and row beyond.
\* The pixel just set is the one read back.
NextPixel ==
    \/ /\ panel.writes < MaxPixelWrites
       /\ \E x \in 0..GridWidth, y \in 0..GridHeight, color \in PanelColors :
             fpc_a005_set_pixel(x, y, color) /\ UNCHANGED notPanel
    \/ /\ panel.set.op = "set_pixel"
       /\ fpc_a005_get_pixel(panel.set.x, panel.set.y)
       /\ UNCHANGED notPanel

(***************************************************************************)
(* Plugin registry (pin_plugin_register, pin_plugin.c)                     *)
(***************************************************************************)

\* PIN_MAX_PLUGINS (8 in pin_plugin.h), scaled.
MaxPlugins == 2

\* The pin_plugin_t structures handed to pin_plugin_register: complete ones
\* under four names (one of them the empty string) with and without a
\* memory limit, one without version and update interval, one without init.
PluginStructs ==
    [name : {"", "clock", "weather", "news"}, version : {"1.0.0"}, init : {TRUE},
     memory_limit : {0, 4096}, update_interval : {60}]
    \cup {[name |-> "clock", version |-> "", init |-> TRUE,
           memory_limit |-> 4096, update_interval |-> 0],
          [name |-> "weather", version |-> "1.0.0", init |-> FALSE,
           memory_limit |-> 4096, update_interval |-> 60]}

\* g_plugin_manager = {0}: no plugin registered.
RegistryInit == registry = [plugins |-> <<>>, last |-> [ret |-> "none"]]

\* A name loop that stops one entry early.
NameRegisteredButLast(table, name) ==
    \E i \in 1..(Len(table) - 1) : table[i].name = name

\* The loop over plugins[0..plugin_count) with strcmp on metadata.name.
NameRegistered(table, name) ==
    \E i \in 1..Len(table) : table[i].name = name

\* pin_plugin_register of one structure: "ret = ESP_OK" stands where the
\* validation would be called; then, under plugins_mutex (1000 ms), the
\* capacity test, the name loop, and the store with state LOADED;
\* pin_plugin_init_context always returns ESP_OK.
pin_plugin_register_call(plugin, took_mutex) ==
    IF ~took_mutex
    THEN registry' = [registry EXCEPT
                        !.last = [ret |-> "ESP_ERR_TIMEOUT", plugin |-> plugin]]
    ELSE IF Len(registry.plugins) >= MaxPlugins
    THEN registry' = [registry EXCEPT
                        !.last = [ret |-> "ESP_ERR_NO_MEM", plugin |-> plugin]]
    ELSE IF NameRegistered(registry.plugins, plugin.name)
    THEN registry' = [registry EXCEPT
                        !.last = [ret |-> "ESP_ERR_INVALID_STATE", plugin |-> plugin]]
    ELSE registry' =
            [plugins |-> Append(registry.plugins,
                                [name |-> plugin.name, version |-> plugin.version,
                                 init |-> plugin.init,
                                 memory_limit |-> plugin.memory_limit,
                                 update_interval |-> plugin.update_interval,
                                 plugin_id |-> Len(registry.plugins),
                                 state |-> "LOADED"]),
             last |-> [ret |-> "ESP_OK", plugin |-> plugin]]

\* Everything outside the registry.
notRegistry == <<coreVars, json_rt, panel, http, update_check, boot, refresher, driver, refresh_calls>>

NextRegistry ==
    \/ \E plugin \in PluginStructs :
          pin_plugin_register_call(plugin, TRUE) /\ UNCHANGED notRegistry
    \/ \E plugin \in PluginStructs :
          pin_plugin_register_call(plugin, FALSE) /\ UNCHANGED notRegistry

(***************************************************************************)
(* Plugin HTTP API (plugin_api_http_get / plugin_api_http_post)            *)
(***************************************************************************)

\* Pieces of text a plugin can put after "://"; an url is a sequence of up to
\* MaxUrlParts of them.
MaxUrlParts == 3
UrlParts == {"api.github.com", "httpbin.org", "evil.com", ".evil.com", "@", "/"}
Urls == UNION {[1..n -> UrlParts] : n \in 1..MaxUrlParts}

HttpInit == http = [method |-> "none"]

\* The host esp_http_client connects to: the authority ends at the first
\* "/", and what precedes an "@" in it is user information.
UrlHost(url) ==
    LET slashes == {i \in 1..Len(url) : url[i] = "/"}
        end == IF slashes = {} THEN Len(url)
               ELSE (CHOOSE i \in slashes : \A j \in slashes : i <= j) - 1
        ats == {i \in 1..end : url[i] = "@"}
        start == IF ats = {} THEN 1
                 ELSE (CHOOSE i \in ats : \A j \in ats : i >= j) + 1
    IN  SubSeq(url, start, end)

\* The whitelist loop: strncmp of the text after "://" with each allowed
\* domain over the length of that domain.
DomainAllowed(url) ==
    url[1] \in {"api.github.com", "httpbin.org", "jsonplaceholder.typicode.com"}

\* plugin_api_http_get of scheme "://" url; a request goes out when the
\* client could be created.
plugin_api_http_get(url, client_ok, err) ==
    http' = IF ~DomainAllowed(url)
            THEN [method |-> "GET", url |-> url, ret |-> "ESP_ERR_NOT_ALLOWED",
                  sent_to |-> <<>>, sent |-> FALSE]
            ELSE IF ~client_ok
            THEN [method |-> "GET", url |-> url, ret |-> "ESP_ERR_NO_MEM",
                  sent_to |-> <<>>, sent |-> FALSE]
            ELSE [method |-> "GET", url |-> url, ret |-> err,
                  sent_to |-> UrlHost(url), sent |-> TRUE]

\* plugin_api_http_post: the same test, then the POST.
plugin_api_http_post(url, client_ok, err) ==
    http' = IF ~DomainAllowed(url)
            THEN [method |-> "POST", url |-> url, ret |-> "ESP_ERR_NOT_ALLOWED",
                  sent_to |-> <<>>, sent |-> FALSE]
            ELSE IF ~client_ok
            THEN [method |-> "POST", url |-> url, ret |-> "ESP_ERR_NO_MEM",
                  sent_to |-> <<>>, sent |-> FALSE]
            ELSE [method |-> "POST", url |-> url, ret |-> err,
                  sent_to |-> UrlHost(url), sent |-> TRUE]

\* Everything outside the HTTP API.
notHttp == <<coreVars, json_rt, panel, registry, update_check, boot, refresher, driver, refresh_calls>>

\* One call is followed: its result depends on nothing but its arguments.
NextHttp ==
    \/ /\ http.method = "none"
       /\ \E url \in Urls, client_ok \in BOOLEAN, err \in {"ESP_OK", "ESP_FAIL"} :
             plugin_api_http_get(url, client_ok, err) /\ UNCHANGED notHttp
    \/ /\ http.method = "none"
       /\ \E url \in Urls, client_ok \in BOOLEAN, err \in {"ESP_OK", "ESP_FAIL"} :
             plugin_api_http_post(url, client_ok, err) /\ UNCHANGED notHttp

(***************************************************************************)
(* Canvas JSON export and import (pin_canvas.c, cJSON)                     *)
(***************************************************************************)

\* A cJSON number item: the double, and valueint saturated at INT_MAX and
\* INT_MIN as cJSON_CreateNumber and cJSON_Parse compute it.
cJSON_Number(d) ==
    LET INT_MAX == 2 ^ (TimeBits - 1) - 1
    IN  [valuedouble |-> d,
         valueint |-> IF d >= INT_MAX THEN INT_MAX
                      ELSE IF d <= -INT_MAX - 1 THEN -INT_MAX - 1 ELSE d]

\* Bodies a client can post to the import endpoint: created_time is any
\* number an uint32_t can hold, or a negative one; the elements are a text
\* element or a rectangle.
JsonBodies ==
    LET ElementTexts ==
            [id : {"a"}, type : {0}, z_index : {3}, visible : BOOLEAN,
             props : [text : {"Hi"}, color : {0, 2}]]
            \cup [id : {"b"}, type : {2}, z_index : {0}, visible : {TRUE},
                  props : [fill_color : {4}, filled : BOOLEAN]]
    IN  [id : {"home"}, name : {"Home"}, background_color : {1},
         created_time : (-1)..(2 ^ TimeBits - 1), modified_time : {0},
         elements : UNION {[1..k -> ElementTexts] : k \in 0..1}]

JsonInit == json_rt = [pc |-> "idle"]

\* cJSON_Print: the text carries the double of every number.
cJSON_Print(json) ==
    LET Element(e) ==
            [f \in DOMAIN e |->
                CASE f \in {"type", "z_index"} -> e[f].valuedouble
                  [] f = "props" ->
                         [g \in DOMAIN e.props |->
                             IF g \in {"color", "fill_color"}
                             THEN e.props[g].valuedouble ELSE e.props[g]]
                  [] OTHER -> e[f]]
    IN  [f \in DOMAIN json |->
            CASE f = "elements" ->
                     [i \in 1..Len(json.elements) |-> Element(json.elements[i])]
              [] f \in {"background_color", "created_time", "modified_time"} ->
                     json[f].valuedouble
              [] OTHER -> json[f]]

\* cJSON_Parse: every number of the text becomes a number item.
cJSON_Parse(text) ==
    LET Element(e) ==
            [f \in DOMAIN e |->
                CASE f \in {"type", "z_index"} -> cJSON_Number(e[f])
                  [] f = "props" ->
                         [g \in DOMAIN e.props |->
                             IF g \in {"color", "fill_color"}
                             THEN cJSON_Number(e.props[g]) ELSE e.props[g]]
                  [] OTHER -> e[f]]
    IN  [f \in DOMAIN text |->
            CASE f = "elements" ->
                     [i \in 1..Len(text.elements) |-> Element(text.elements[i])]
              [] f \in {"background_color", "created_time", "modified_time"} ->
                     cJSON_Number(text[f])
              [] OTHER -> text[f]]

\* canvas_to_json: the header members, then per element the common members
\* and the props of its type.
canvas_to_json(canvas) ==
    LET Element(elem) ==
            [id |-> elem.id,
             type |-> cJSON_Number(elem.type),
             z_index |-> cJSON_Number(elem.z_index),
             visible |-> elem.visible,
             props |-> IF elem.type = 0
                       THEN [text |-> elem.props.text,
                             color |-> cJSON_Number(elem.props.color)]
                       ELSE [fill_color |-> cJSON_Number(elem.props.fill_color),
                             filled |-> elem.props.filled]]
    IN  [id |-> canvas.id,
         name |-> canvas.name,
         background_color |-> cJSON_Number(canvas.background_color),
         created_time |-> cJSON_Number(canvas.created_time),
         modified_time |-> cJSON_Number(canvas.modified_time),
         elements |-> [i \in 1..Len(canvas.elements) |-> Element(canvas.elements[i])]]

\* The canvas pin_canvas_import_json stores for a text: json_to_canvas of the
\* parsed text, modified_time set by pin_canvas_update from time(NULL).
ImportedCanvas(text, now) ==
    [json_to_canvas(cJSON_Parse(text)) EXCEPT !.modified_time = now]

\* canvas_update_handler: a posted body becomes the stored canvas.
JsonStore(body, now) ==
    /\ json_rt.pc = "idle"
    /\ json_rt' = [pc |-> "stored", canvas |-> ImportedCanvas(body, now)]

\* pin_canvas_export_json of the stored canvas.
JsonExport ==
    /\ json_rt.pc = "stored"
    /\ json_rt' = [pc |-> "exported", canvas |-> json_rt.canvas,
                   json |-> cJSON_Print(canvas_to_json(json_rt.canvas))]

\* pin_canvas_import_json of the exported text some time later.
JsonImport(now) ==
    /\ json_rt.pc = "exported"
    /\ json_rt' = [pc |-> "imported", canvas |-> json_rt.canvas,
                   json |-> json_rt.json,
                   imported |-> ImportedCanvas(json_rt.json, now)]

\* pin_canvas_export_json of the canvas the import stored.
JsonReExport ==
    /\ json_rt.pc = "imported"
    /\ json_rt' = [pc |-> "reexported", canvas |-> json_rt.canvas,
                   json |-> json_rt.json, imported |-> json_rt.imported,
                   json2 |-> cJSON_Print(canvas_to_json(json_rt.imported))]

\* Everything outside the JSON run.
notJson == <<coreVars, panel, registry, http, update_check, boot, refresher, driver, refresh_calls>>

NextJson ==
    \/ /\ json_rt.pc = "idle"
       /\ \E body \in JsonBodies : JsonStore(body, 1) /\ UNCHANGED notJson
    \/ \E now \in 1..2 : JsonImport(now) /\ UNCHANGED notJson
    \/ JsonExport /\ UNCHANGED notJson
    \/ JsonReExport /\ UNCHANGED notJson

(***************************************************************************)
(* OTA update check (pin_ota.c: pin_ota_check_update, parse_update_info)   *)
(***************************************************************************)

\* pin_ota_check_update calls in one behaviour.
MaxChecks == 2

\* A JSON member that is absent, or not of the type the parser asks for.
NotThere == "<absent>"

\* Assets a release lists: the firmware binary with its URL and size, the
\* firmware binary without a usable URL or size (size -1: not a number), and
\* a file that is not firmware.
ReleaseAssets ==
    {[name |-> "pin_firmware.bin", browser_download_url |-> "url_a", size |-> 1],
     [name |-> "pin_firmware.bin", browser_download_url |-> "url_b", size |-> 2],
     [name |-> "pin_firmware.bin", browser_download_url |-> NotThere, size |-> -1],
     [name |-> "notes.txt", browser_download_url |-> "url_n", size |-> 3]}

\* Response bodies of the release server: GitHub release documents (every
\* tag is shorter than PIN_OTA_VERSION_MAX_LEN), and a body that is not JSON.
Manifests ==
    {[parses |-> TRUE, tag_name |-> t, body |-> "notes", assets |-> a] :
        t \in {"1.0.0", "0.9.0", NotThere},
        a \in {<<>>} \cup {<<x>> : x \in ReleaseAssets}
                     \cup {<<x, y>> : x \in {r \in ReleaseAssets : r.name = "notes.txt"},
                                      y \in ReleaseAssets}}
    \cup {[parses |-> FALSE, tag_name |-> NotThere, body |-> NotThere, assets |-> <<>>]}

\* How far the HTTP exchange of one check gets.
CheckOutcomes ==
    {"no_client", "perform_failed", "bad_status", "no_buffer", "read_nothing", "read"}

\* g_ota_status as the initializer leaves it: available_update is zeroed.
UpdateCheckInit ==
    update_check = [state |-> "IDLE", current_version |-> "1.0.0",
                    error_message |-> "", update_available |-> FALSE,
                    last_check_time |-> 0,
                    available_update |-> [version |-> "", description |-> "",
                                          url |-> "", size |-> 0],
                    checks |-> 0, last |-> [ret |-> "none"]]

\* strstr(name->valuestring, "pin_firmware.bin") on the names above.
IsFirmwareName(name) == name \in {"pin_firmware.bin"}

\* The asset the cJSON_ArrayForEach loop breaks at: the first one whose
\* name holds "pin_firmware.bin"; 0 when the loop runs to the end.
FirmwareAsset(assets) ==
    LET hits == {i \in 1..Len(assets) : IsFirmwareName(assets[i].name)}
    IN  IF hits = {} THEN 0 ELSE CHOOSE i \in hits : \A j \in hits : i <= j

\* parse_update_info(json_data, info): info is written in place, member by
\* member, and only where the document has the member; the URL test at the
\* end reads whatever info->url holds then.
parse_update_info(json_data, info) ==
    IF ~json_data.parses THEN [err |-> "ESP_FAIL", info |-> info]
    ELSE LET k == FirmwareAsset(json_data.assets)
             version == IF json_data.tag_name # NotThere
                        THEN json_data.tag_name ELSE info.version
             description == IF json_data.body # NotThere
                            THEN json_data.body ELSE info.description
             url == IF k # 0 /\ json_data.assets[k].browser_download_url # NotThere
                    THEN json_data.assets[k].browser_download_url ELSE info.url
             size == IF k # 0 /\ json_data.assets[k].size >= 0
                     THEN json_data.assets[k].size ELSE info.size
         IN  [err |-> IF url = "" THEN "ESP_ERR_NOT_FOUND"
                      ELSE IF json_data.tag_name = NotThere THEN "ESP_ERR_INVALID_ARG"
                      ELSE "ESP_OK",
              info |-> [version |-> version, description |-> description,
                        url |-> url, size |-> size]]

\* pin_ota_check_update(update_url) from entry to return, the server
\* answering with manifest and the exchange getting as far as outcome.
pin_ota_check_update(manifest, outcome) ==
    /\ update_check.checks < MaxChecks
    /\ LET now == update_check.checks + 1
           parsed == parse_update_info(manifest, update_check.available_update)
           err == CASE outcome = "no_client" -> "ESP_ERR_NO_MEM"
                    [] outcome = "perform_failed" -> "ESP_ERR_HTTP_CONNECT"
                    [] outcome = "bad_status" -> "ESP_FAIL"
                    [] outcome = "no_buffer" -> "ESP_ERR_NO_MEM"
                    [] outcome = "read_nothing" -> "ESP_OK"
                    [] OTHER -> parsed.err
           info == IF outcome = "read" THEN parsed.info
                   ELSE update_check.available_update
       IN  update_check' =
              [state |-> IF err = "ESP_OK" THEN "IDLE" ELSE "ERROR",
               current_version |-> update_check.current_version,
               error_message |->
                   IF outcome = "no_client" THEN "Failed to initialize HTTP client"
                   ELSE IF err # "ESP_OK" THEN <<"Update check failed", err>>
                   ELSE update_check.error_message,
               update_available |->
                   IF outcome = "read" /\ err = "ESP_OK"
                   THEN info.version # update_check.current_version
                   ELSE update_check.update_available,
               last_check_time |-> IF outcome = "no_client"
                                   THEN update_check.last_check_time ELSE now,
               available_update |-> info,
               checks |-> now,
               last |-> [ret |-> err, manifest |-> manifest, outcome |-> outcome]]

\* Everything outside the update check.
notUpdateCheck == <<coreVars, json_rt, panel, registry, http, boot, refresher, driver, refresh_calls>>

NextUpdateCheck ==
    \/ \E manifest \in Manifests :
          pin_ota_check_update(manifest, "read") /\ UNCHANGED notUpdateCheck
    \/ \E manifest \in Manifests, outcome \in CheckOutcomes \ {"read"} :
          pin_ota_check_update(manifest, outcome) /\ UNCHANGED notUpdateCheck

(***************************************************************************)
(* OTA boot and commit (pin_ota.c: g_ota_status, pin_ota_init,             *)
(* pin_ota_mark_valid, pin_ota_rollback, ota_update_task)                  *)
(***************************************************************************)

\* Updates installed in one behaviour.
MaxInstalls == 2

\* Versions of the releases (esp_app_desc_t.version of their images).
ReleaseVersions == {"1.0.0", "1.1.0", "v2"}

\* The initializer of g_ota_status.current_version. It is the only place of
\* the firmware that writes the field, so every image built from this
\* source starts with it and keeps it.
BuiltInVersion == "1.0.0"

\* The factory image runs, valid, and pin_ota_init has run.
BootInit ==
    boot = [pc |-> "ready", running |-> "1.0.0", previous |-> "none",
            img_state |-> "VALID", current_version |-> BuiltInVersion,
            complete |-> <<>>, init_ret |-> "ESP_OK", installs |-> 0]

\* What a reset leaves: the bootloader picks the image, RAM is initialised
\* from the image, and app_main has not reached pin_ota_init yet.
Booted(image, previous, img_state) ==
    [pc |-> "booted", running |-> image, previous |-> previous,
     img_state |-> img_state, current_version |-> BuiltInVersion,
     complete |-> <<>>, init_ret |-> "none", installs |-> boot.installs]

\* ota_update_task after download_and_install_update returned ESP_OK for
\* the image of release version: complete(true), then esp_restart. The
\* bootloader starts the new slot, pending verification when the build has
\* application rollback enabled and with no OTA state otherwise.
OtaInstallAndRestart(version, rollback_enabled) ==
    /\ boot.pc = "ready"
    /\ boot.installs < MaxInstalls
    /\ boot' = [Booted(version, boot.running,
                       IF rollback_enabled THEN "PENDING_VERIFY" ELSE "UNDEFINED")
                   EXCEPT !.complete = <<TRUE>>, !.installs = boot.installs + 1]

\* pin_ota_mark_valid: esp_ota_mark_app_valid_cancel_rollback and its result.
pin_ota_mark_valid(img_state, marked) ==
    IF marked THEN "VALID" ELSE img_state

\* pin_ota_init: without the event group it returns before it looks at the
\* image; otherwise a pending image is marked valid (the result of
\* pin_ota_mark_valid is not used) and the timer is created.
pin_ota_init(group_ok, state_ok, marked, timer_ok) ==
    /\ boot.pc = "booted"
    /\ boot' = [boot EXCEPT
          !.pc = "ready",
          !.img_state = IF group_ok /\ state_ok /\ boot.img_state = "PENDING_VERIFY"
                        THEN pin_ota_mark_valid(boot.img_state, marked)
                        ELSE boot.img_state,
          !.init_ret = IF ~group_ok THEN "ESP_ERR_NO_MEM"
                       ELSE IF ~timer_ok THEN "ESP_FAIL" ELSE "ESP_OK"]

\* pin_ota_rollback that reaches the reboot: the running image is marked
\* invalid and the bootloader starts the previous slot.
pin_ota_rollback ==
    /\ boot.pc = "ready"
    /\ boot.img_state \in {"VALID", "PENDING_VERIFY"}
    /\ boot.previous # "none"
    /\ boot' = Booted(boot.previous, "none", "VALID")

\* A reset (esp_restart elsewhere, watchdog, power): an image still pending
\* verification is aborted and the bootloader goes back to the previous
\* slot; any other image starts again.
Reset ==
    /\ boot.pc = "ready"
    /\ boot' = IF boot.img_state = "PENDING_VERIFY"
               THEN Booted(boot.previous, "none", "VALID")
               ELSE Booted(boot.running, boot.previous, boot.img_state)

\* Everything outside boot and commit.
notBoot == <<coreVars, json_rt, panel, registry, http, update_check, refresher, driver, refresh_calls>>

NextBoot ==
    \/ \E version \in ReleaseVersions, rollback_enabled \in BOOLEAN :
          OtaInstallAndRestart(version, rollback_enabled) /\ UNCHANGED notBoot
    \/ \E group_ok, state_ok, marked, timer_ok \in BOOLEAN :
          pin_ota_init(group_ok, state_ok, marked, timer_ok) /\ UNCHANGED notBoot
    \/ pin_ota_rollback /\ UNCHANGED notBoot
    \/ Reset /\ UNCHANGED notBoot

(***************************************************************************)
(* Canvas display (pin_canvas_display, fpc_a005_draw_bitmap, refresh)      *)
(***************************************************************************)

\* fpc_a005_color_t of the colours the renderer draws with.
ColorCode(color) ==
    CASE color = "WHITE" -> 1
      [] color = "RED" -> 2
      [] color = "BLUE" -> 4

\* handle->render_buffer after pin_canvas_render: draw_pixel and memset
\* store one colour per byte, PIN_CANVAS_WIDTH * PIN_CANVAS_HEIGHT bytes.
RenderBytes(buffer) == [i \in DOMAIN buffer |-> ColorCode(buffer[i])]

\* fpc_a005_draw_bitmap(handle, 0, 0, w, h, bitmap), the two loops from
\* source pixel k on: pixel k of the bitmap is a nibble of byte k / 2, the
\* high one for even k; pixels beyond the panel are skipped.
RECURSIVE DrawBitmapFrom(_, _, _, _, _)
DrawBitmapFrom(framebuffer, k, w, h, bitmap) ==
    IF k >= w * h THEN framebuffer
    ELSE LET px == k % w
             py == k \div w
             bitmap_index == k \div 2
             color == IF k % 2 = 0 THEN (bitmap[bitmap_index] \div 16) % 16
                      ELSE bitmap[bitmap_index] % 16
         IN  DrawBitmapFrom(
                IF py < GridHeight /\ px < GridWidth
                THEN fpc_a005_set_pixel_in_buffer(framebuffer, px, py, color)
                ELSE framebuffer,
                k + 1, w, h, bitmap)

fpc_a005_draw_bitmap(framebuffer, w, h, bitmap) ==
    DrawBitmapFrom(framebuffer, 0, w, h, bitmap)

\* fpc_a005_display(handle): a full refresh, fpc_a005_refresh(handle,
\* FPC_A005_REFRESH_FULL): the framebuffer is sent, then DISPLAY_REFRESH.
fpc_a005_display(framebuffer, transfer_ok) ==
    IF transfer_ok
    THEN [mode |-> "FULL", data |-> framebuffer, ret |-> "ESP_OK"]
    ELSE [mode |-> "none", ret |-> "ESP_FAIL"]

\* pin_canvas_display of a canvas that pin_canvas_get finds: render into
\* handle->render_buffer, draw that buffer as a bitmap at (0, 0), refresh.
pin_canvas_display(canvas, transfer_ok) ==
    /\ pin_canvas_render(canvas)
    /\ LET drawn == fpc_a005_draw_bitmap(panel.framebuffer, GridWidth, GridHeight,
                                         RenderBytes(render'.buffer))
           shown == fpc_a005_display(drawn, transfer_ok)
       IN  panel' = [panel EXCEPT !.framebuffer = drawn,
                                  !.sent = shown,
                                  !.display = [ret |-> shown.ret]]

\* pin_canvas_display of an id that is not stored: pin_canvas_render
\* returns the error of pin_canvas_get and nothing is drawn.
pin_canvas_display_missing ==
    /\ panel' = [panel EXCEPT !.display = [ret |-> "ESP_ERR_NOT_FOUND"]]
    /\ UNCHANGED render

\* Everything outside the renderer and the panel.
notCanvasDisplay == <<dispVars, plugVars, quotaVars, memVars, canvVars, lockVars,
                      otaVars, wifiVars, json_rt, registry, http, update_check, boot,
                      refresher, driver, refresh_calls>>

\* One display call is followed.
NextCanvasDisplay ==
    \/ /\ panel.display.ret = "none"
       /\ \E canvas \in RenderCanvases, transfer_ok \in BOOLEAN :
             pin_canvas_display(canvas, transfer_ok) /\ UNCHANGED notCanvasDisplay
    \/ /\ panel.display.ret = "none"
       /\ pin_canvas_display_missing
       /\ UNCHANGED notCanvasDisplay

(***************************************************************************)
(* Refresh policy (pin_display_refresh, g_display_config, and the          *)
(* decision function of display-system.md)                                 *)
(***************************************************************************)

\* g_display_config as pin_display_init fills it (seconds, count).
partial_refresh_interval == 300
full_refresh_interval == 1800
max_partial_refresh == 10

\* The clock moves in steps of ClockStep seconds, MaxClockSteps times.
ClockStep == 900
MaxClockSteps == 2
\* pin_display_refresh calls in one behaviour.
MaxPolicyRefreshes == 11

\* g_refresh_stats = {0}; the counters of pin_display_decide_refresh_mode
\* (its static partial_refresh_count, display_manager.last_*) start at 0.
RefreshPolicyInit ==
    refresher = [stats |-> [total_refreshes |-> 0, full_refreshes |-> 0,
                            partial_refreshes |-> 0, partial_refresh_count |-> 0,
                            last_refresh_time |-> 0, last_full_refresh_time |-> 0],
                 decide |-> [partial_refresh_count |-> 0, last_full_refresh |-> 0,
                             last_partial_refresh |-> 0],
                 now |-> 0, calls |-> 0, last |-> [mode |-> "none"]]

\* pin_display_refresh(mode) of a task that is alone at the panel, the
\* driver returning ret ("ESP_ERR_TIMEOUT": the mutex was not obtained).
\* The mode is passed to fpc_a005_refresh as it came; last records what the
\* call found and did.
RefreshWithMode(r, mode, ret) ==
    [r EXCEPT
        !.stats = IF ret = "ESP_OK"
                  THEN [RefreshStatsUpdate(r.stats, mode) EXCEPT
                           !.last_refresh_time = r.now,
                           !.last_full_refresh_time =
                               IF mode = "FULL" THEN r.now ELSE @]
                  ELSE r.stats,
        !.calls = r.calls + 1,
        !.last = [mode |-> mode, ret |-> ret,
                  streak_before |-> r.stats.partial_refresh_count,
                  since_full |-> r.now - r.stats.last_full_refresh_time]]

\* A caller that names the mode itself (app_main's screens, the handlers).
pin_display_refresh(mode, ret) ==
    /\ refresher.calls < MaxPolicyRefreshes
    /\ refresher' = RefreshWithMode(refresher, mode, ret)

\* pin_display_decide_refresh_mode of the design document: the mode, and
\* the counters it updates while deciding.
pin_display_decide_refresh_mode(d, now, has_dirty_regions) ==
    IF ~has_dirty_regions THEN [mode |-> "NONE", decide |-> d]
    ELSE IF d.partial_refresh_count >= max_partial_refresh
            \/ now - d.last_full_refresh >= full_refresh_interval
    THEN [mode |-> "FULL",
          decide |-> [d EXCEPT !.partial_refresh_count = 0, !.last_full_refresh = now]]
    ELSE IF now - d.last_partial_refresh >= partial_refresh_interval
    THEN [mode |-> "PARTIAL",
          decide |-> [d EXCEPT !.partial_refresh_count = @ + 1,
                               !.last_partial_refresh = now]]
    ELSE [mode |-> "FAST", decide |-> d]

\* One round of the document's display task: decide, then refresh unless
\* the decision is PIN_REFRESH_NONE.
display_task_round(has_dirty_regions, ret) ==
    /\ refresher.calls < MaxPolicyRefreshes
    /\ LET decided == pin_display_decide_refresh_mode(refresher.decide, refresher.now,
                                                      has_dirty_regions)
           r == [refresher EXCEPT !.decide = decided.decide]
       IN  refresher' = IF decided.mode = "NONE"
                        THEN [r EXCEPT !.calls = @ + 1, !.last = [mode |-> "NONE"]]
                        ELSE RefreshWithMode(r, decided.mode, ret)

\* Time passes.
ClockAdvance ==
    /\ refresher.now < ClockStep * MaxClockSteps
    /\ refresher' = [refresher EXCEPT !.now = @ + ClockStep]

\* Everything outside the refresh policy.
notRefreshPolicy == <<coreVars, json_rt, panel, registry, http, update_check, boot, driver, refresh_calls>>

NextRefreshPolicy ==
    \/ \E mode \in {"FULL", "PARTIAL"}, ret \in {"ESP_OK", "ESP_ERR_TIMEOUT"} :
          pin_display_refresh(mode, ret) /\ UNCHANGED notRefreshPolicy
    \/ \E has_dirty_regions \in BOOLEAN, ret \in {"ESP_OK", "ESP_FAIL"} :
          display_task_round(has_dirty_regions, ret) /\ UNCHANGED notRefreshPolicy
    \/ ClockAdvance /\ UNCHANGED notRefreshPolicy

(***************************************************************************)
(* Panel power state (fpc_a005_sleep, fpc_a005_wake, fpc_a005_refresh)     *)
(* under the callers of the firmware                                       *)
(***************************************************************************)

\* Driver calls that read or write is_sleeping.
PowerOps == {"sleep", "wake", "refresh"}

IdleDriverTask == [pc |-> "idle", op |-> "none", locked |-> FALSE, ret |-> "none",
                   wake_ret |-> "none", sent |-> FALSE]

\* fpc_a005_init: is_sleeping = false; g_display_mutex is free.
DriverInit ==
    driver = [is_sleeping |-> FALSE, mutex |-> "free",
              task |-> [t \in DisplayTasks |-> IdleDriverTask]]

\* The call is over: the facade gives the mutex back.
DriverReturn(d, t, ret) ==
    [d EXCEPT !.mutex = IF d.task[t].locked THEN "free" ELSE @,
              !.task[t].pc = "idle", !.task[t].ret = ret]

\* A task enters a driver call, through the facade (pin_display_sleep,
\* pin_display_wake, pin_display_refresh: g_display_mutex taken first) or,
\* as api_display_refresh_handler does, fpc_a005_refresh on the handle
\* without the mutex. The call begins with its test of is_sleeping:
\* sleep returns at once on a sleeping panel, wake on a panel that is
\* awake, and refresh calls fpc_a005_wake on a sleeping panel.
DriverCall(t, op, locked) ==
    /\ driver.task[t].pc = "idle"
    /\ locked => driver.mutex = "free"
    /\ ~locked => (t = "http" /\ op = "refresh")
    /\ LET entered == [driver EXCEPT
                          !.mutex = IF locked THEN t ELSE @,
                          !.task[t] = [IdleDriverTask EXCEPT !.op = op,
                                                             !.locked = locked]]
       IN  driver' =
              CASE op = "sleep" ->
                     IF driver.is_sleeping THEN DriverReturn(entered, t, "ESP_OK")
                     ELSE [entered EXCEPT !.task[t].pc = "sleep_cmds"]
                [] op = "wake" ->
                     IF ~driver.is_sleeping THEN DriverReturn(entered, t, "ESP_OK")
                     ELSE [entered EXCEPT !.task[t].pc = "wake_cmds"]
                [] OTHER ->
                     IF driver.is_sleeping
                     THEN [entered EXCEPT !.task[t].pc = "wake_cmds"]
                     ELSE [entered EXCEPT !.task[t].pc = "data", !.task[t].sent = TRUE]

\* fpc_a005_sleep: POWER_OFF, wait, DEEP_SLEEP, 0xA5; is_sleeping = true
\* when all of them succeeded.
fpc_a005_sleep(t, ret) ==
    /\ driver.task[t].pc = "sleep_cmds"
    /\ driver' = DriverReturn([driver EXCEPT
                                  !.is_sleeping = IF ret = "ESP_OK" THEN TRUE ELSE @],
                              t, ret)

\* fpc_a005_wake: reset, POWER_ON, wait; is_sleeping = false on success.
\* Inside fpc_a005_refresh a failed wake ends the refresh with its error,
\* a successful one goes on to the data transmission.
fpc_a005_wake(t, ret) ==
    /\ driver.task[t].pc = "wake_cmds"
    /\ LET woken == [driver EXCEPT
                        !.is_sleeping = IF ret = "ESP_OK" THEN FALSE ELSE @,
                        !.task[t].wake_ret = ret]
       IN  driver' = IF driver.task[t].op = "refresh" /\ ret = "ESP_OK"
                     THEN [woken EXCEPT !.task[t].pc = "data", !.task[t].sent = TRUE]
                     ELSE DriverReturn(woken, t, ret)

\* fpc_a005_refresh, after the wake: DATA_START_TRANSMISSION_1 and the
\* framebuffer are on the bus while the task is at "data"; DISPLAY_REFRESH
\* and the wait follow, and the call returns.
fpc_a005_refresh(t, ret) ==
    /\ driver.task[t].pc = "data"
    /\ driver' = DriverReturn(driver, t, ret)

\* Everything outside the power state.
notDriver == <<coreVars, json_rt, panel, registry, http, update_check, boot, refresher, refresh_calls>>

NextDriver ==
    \/ \E t \in DisplayTasks, op \in PowerOps :
          DriverCall(t, op, TRUE) /\ UNCHANGED notDriver
    \/ DriverCall("http", "refresh", FALSE) /\ UNCHANGED notDriver
    \/ \E t \in DisplayTasks, ret \in {"ESP_OK", "ESP_ERR_TIMEOUT"} :
          fpc_a005_sleep(t, ret) /\ UNCHANGED notDriver
    \/ \E t \in DisplayTasks, ret \in {"ESP_OK", "ESP_ERR_TIMEOUT"} :
          fpc_a005_wake(t, ret) /\ UNCHANGED notDriver
    \/ \E t \in DisplayTasks, ret \in {"ESP_OK", "ESP_ERR_TIMEOUT"} :
          fpc_a005_refresh(t, ret) /\ UNCHANGED notDriver

(***************************************************************************)
(* Refresh statistics, load and store apart                                *)
(* (pin_display_refresh: the counters are incremented after                *)
(* xSemaphoreGive)                                                         *)
(***************************************************************************)

\* The tasks that call pin_display_refresh: the main task (startup and
\* ready screens) and the display task (display-system.md).
RefreshCallers == {"main", "display"}

\* pin_display_refresh calls in one behaviour.
MaxRefreshCalls == 3

IdleRefreshCall == [pc |-> "idle", mode |-> "none", ret |-> "none", reg |-> 0]

RefreshStatsInit ==
    refresh_calls =
        [mutex |-> "free", calls |-> 0,
         stats |-> [total_refreshes |-> 0, full_refreshes |-> 0,
                    partial_refreshes |-> 0, partial_refresh_count |-> 0],
         ok |-> [FULL |-> 0, PARTIAL |-> 0],
         task |-> [t \in RefreshCallers |-> IdleRefreshCall]]

\* xSemaphoreTake(g_display_mutex, 30 s) succeeds.
RefreshTake(t, mode) ==
    /\ refresh_calls.task[t].pc = "idle"
    /\ refresh_calls.mutex = "free"
    /\ refresh_calls.calls < MaxRefreshCalls
    /\ refresh_calls' = [refresh_calls EXCEPT
          !.mutex = t, !.calls = @ + 1,
          !.task[t] = [pc |-> "locked", mode |-> mode, ret |-> "none", reg |-> 0]]

\* xSemaphoreTake fails after 30 s: ESP_ERR_TIMEOUT, nothing else is done.
RefreshTimeout(t, mode) ==
    /\ refresh_calls.task[t].pc = "idle"
    /\ refresh_calls.mutex \notin {"free", t}
    /\ refresh_calls.calls < MaxRefreshCalls
    /\ refresh_calls' = [refresh_calls EXCEPT
          !.calls = @ + 1,
          !.task[t] = [pc |-> "idle", mode |-> mode,
                       ret |-> "ESP_ERR_TIMEOUT", reg |-> 0]]

\* fpc_a005_refresh returns ret and the mutex is given back; on ESP_OK the
\* task goes on to the counters, on an error it returns ret. ok counts the
\* refreshes that succeeded, by mode.
RefreshGive(t, ret) ==
    /\ refresh_calls.task[t].pc = "locked"
    /\ refresh_calls' =
          IF ret = "ESP_OK"
          THEN [refresh_calls EXCEPT
                   !.mutex = "free",
                   !.ok[refresh_calls.task[t].mode] = @ + 1,
                   !.task[t].pc = "load_total"]
          ELSE [refresh_calls EXCEPT
                   !.mutex = "free",
                   !.task[t].pc = "idle", !.task[t].ret = ret]

\* The counter an increment of the statistics block reads and writes, and
\* the position after it, by position and mode.
StatsField(pc, mode) ==
    CASE pc \in {"load_total", "store_total"} -> "total_refreshes"
      [] pc \in {"load_mode", "store_mode"} ->
            IF mode = "FULL" THEN "full_refreshes" ELSE "partial_refreshes"
      [] OTHER -> "partial_refresh_count"

\* g_refresh_stats.<counter>++, first half: the value is read.
StatsLoad(t) ==
    /\ refresh_calls.task[t].pc \in {"load_total", "load_mode", "load_streak"}
    /\ LET c == refresh_calls.task[t]
           next == CASE c.pc = "load_total" -> "store_total"
                     [] c.pc = "load_mode" -> "store_mode"
                     [] OTHER -> "store_streak"
       IN  refresh_calls' = [refresh_calls EXCEPT
              !.task[t].reg = refresh_calls.stats[StatsField(c.pc, c.mode)],
              !.task[t].pc = next]

\* g_refresh_stats.<counter>++, second half: the value read, plus one, is
\* written. After the last counter the call returns ESP_OK.
StatsStore(t) ==
    /\ refresh_calls.task[t].pc \in {"store_total", "store_mode", "store_streak"}
    /\ LET c == refresh_calls.task[t]
           next == CASE c.pc = "store_total" -> "load_mode"
                     [] c.pc = "store_mode" ->
                           IF c.mode = "FULL" THEN "reset_streak" ELSE "load_streak"
                     [] OTHER -> "idle"
       IN  refresh_calls' = [refresh_calls EXCEPT
              !.stats[StatsField(c.pc, c.mode)] = c.reg + 1,
              !.task[t].pc = next,
              !.task[t].ret = IF next = "idle" THEN "ESP_OK" ELSE @]

\* g_refresh_stats.partial_refresh_count = 0 of a full refresh; the call
\* returns ESP_OK.
StatsResetStreak(t) ==
    /\ refresh_calls.task[t].pc = "reset_streak"
    /\ refresh_calls' = [refresh_calls EXCEPT
          !.stats.partial_refresh_count = 0,
          !.task[t].pc = "idle", !.task[t].ret = "ESP_OK"]

notRefreshStats == <<coreVars, json_rt, panel, registry, http, update_check, boot, refresher, driver>>

NextRefreshStats ==
    \/ \E t \in RefreshCallers, mode \in {"FULL", "PARTIAL"} :
          RefreshTake(t, mode) /\ UNCHANGED notRefreshStats
    \/ \E t \in RefreshCallers, mode \in {"FULL", "PARTIAL"} :
          RefreshTimeout(t, mode) /\ UNCHANGED notRefreshStats
    \/ \E t \in RefreshCallers, ret \in {"ESP_OK", "ESP_FAIL"} :
          RefreshGive(t, ret) /\ UNCHANGED notRefreshStats
    \/ \E t \in RefreshCallers : StatsLoad(t) /\ UNCHANGED notRefreshStats
    \/ \E t \in RefreshCallers : StatsStore(t) /\ UNCHANGED notRefreshStats
    \/ \E t \in RefreshCallers : StatsResetStreak(t) /\ UNCHANGED notRefreshStats

Init ==
    /\ DisplayInit
    /\ PluginInit
    /\ QuotaInit
    /\ AllocInit
    /\ CanvasInit
    /\ CanvasLockInit
    /\ OtaInit
    /\ WifiInit
    /\ RenderInit
    /\ JsonInit
    /\ PanelInit
    /\ RegistryInit
    /\ HttpInit
    /\ UpdateCheckInit
    /\ BootInit
    /\ RefreshPolicyInit
    /\ DriverInit
    /\ RefreshStatsInit

SpecDisplay == Init /\ [][NextDisplay]_vars
SpecPlugin == Init /\ [][NextPlugin]_vars
SpecQuota == Init /\ [][NextQuota]_vars
SpecAlloc == Init /\ [][NextAlloc]_vars
SpecCanvas == Init /\ [][NextCanvas]_vars
SpecCanvasSerial == Init /\ [][NextCanvasSerial]_vars
SpecCanvasMutex == Init /\ [][NextCanvasMutex]_vars
SpecOta == Init /\ [][NextOta]_vars
SpecRender == Init /\ [][NextRender]_vars
SpecJson == Init /\ [][NextJson]_vars
SpecPixel == Init /\ [][NextPixel]_vars
SpecRegistry == Init /\ [][NextRegistry]_vars
SpecHttp == Init /\ [][NextHttp]_vars
SpecUpdateCheck == Init /\ [][NextUpdateCheck]_vars
SpecBoot == Init /\ [][NextBoot]_vars
SpecCanvasDisplay == Init /\ [][NextCanvasDisplay]_vars
SpecWorkerCount == Init /\ [][NextWorkerCount]_vars
SpecRefreshPolicy == Init /\ [][NextRefreshPolicy]_vars
SpecDriver == Init /\ [][NextDriver]_vars
SpecRefreshStats == Init /\ [][NextRefreshStats]_vars
SpecWifi == Init /\ [][NextWifi]_vars
\* The task's loop never stops (vTaskDelayUntil of 1 s) and the event loop
\* delivers every outcome.
SpecWifiFair ==
    /\ Init
    /\ [][NextWifiFair]_vars
    /\ WF_vars(WifiTick(TRUE) /\ UNCHANGED notWifi)
    /\ WF_vars(LinkOutcome /\ UNCHANGED notWifi)

(***************************************************************************)
(* Properties                                                              *)
(***************************************************************************)

\* C1: at any time at most one panel operation (clear/draw, refresh, sleep,
\* wake, bitmap transfer) is in progress on the panel, whichever tasks issue
\* them; in particular two refreshes never overlap.
C1_OnePanelOperation ==
    Cardinality({t \in DisplayTasks : panel_op[t] # "none"}) <= 1

\* C2: every plugin whose error_count is at least PIN_PLUGIN_MAX_ERRORS has
\* state Error and no scheduled worker, after any sequence of register,
\* enable, disable and worker steps.
C2_ErrorLimitStopsPlugin ==
    \A p \in Plugins :
        plugins[p].error_count >= PIN_PLUGIN_MAX_ERRORS =>
            /\ plugins[p].state = "ERROR"
            /\ WorkersOf(p) = {}

\* C3: every stored canvas has at most the capacity's number of elements and
\* no two of its elements share an id.
C3_CanvasElementsBoundedUnique ==
    \A c \in CanvasIds :
        LET els == nvs_canvas[c].elements
        IN  /\ Len(els) <= MaxElements
            /\ \A i, j \in 1..Len(els) : els[i].id = els[j].id => i = j

\* C4: when two overlapping add_element calls on the same canvas with
\* different element ids have both returned ESP_OK, both elements are in the
\* stored canvas.
C4_ConcurrentAddsBothStored ==
    \A t, u \in Clients :
        (/\ t # u
         /\ client[t].pc = "idle" /\ client[u].pc = "idle"
         /\ client[t].op = "add_element" /\ client[u].op = "add_element"
         /\ client[t].ret = "ESP_OK" /\ client[u].ret = "ESP_OK"
         /\ client[t].overlapped /\ client[u].overlapped
         /\ client[t].element.id # client[u].element.id)
        => \A c \in CanvasIds :
              {client[t].element.id, client[u].element.id}
                 \subseteq {nvs_canvas[c].elements[i].id :
                               i \in 1..Len(nvs_canvas[c].elements)}

\* C5: at no time do two OTA workers exist.
C5_AtMostOneOtaWorker ==
    Cardinality(LiveOtaTasks) <= 1

\* C6: a worker whose update was cancelled (pin_ota_cancel_update returned
\* ESP_OK while it was in progress) never reports success and never reaches
\* the reboot.
C6_CancelledNeverCompletes ==
    \A w \in OtaTaskIds :
        ota_tasks[w].cancelled => ota_tasks[w].pc # "reboot_wait"

\* C7: the OTA worker reports success (state Complete, complete_cb(true),
\* reboot) only when the whole image was received and validated.
C7_SuccessOnlyWhenValidated ==
    \A w \in OtaTaskIds :
        ota_tasks[w].pc = "reboot_wait" => ota_tasks[w].outcome = "validated"

C9_AtMostOneWorkerPerPlugin ==
    \A p \in Plugins : Cardinality(WorkersOf(p)) <= 1

\* C10: a worker is never deleted while its update callback is executing.
C10_UpdateNeverAborted ==
    \A p \in Plugins : ~log[p].update_aborted

\* C11: once enable(false) on a plugin has returned, and until the next
\* enable(true), the plugin's state is Loaded and no worker exists for it.
C11_DisabledStaysLoaded ==
    \A p \in Plugins :
        log[p].disabled =>
            /\ plugins[p].state = "LOADED"
            /\ WorkersOf(p) = {}

C13_NoUpdateWhileSuspended ==
    [][\A w \in TaskIds :
          (tasks[w].pc = "loop" /\ tasks'[w].pc = "in_update")
              => plugins'[tasks[w].plugin].state # "SUSPENDED"]_vars

\* C14: every host-API call a plugin makes adds one to the api_calls_count
\* of its context.
C14_ApiCallsCounted ==
    [][\A p \in Plugins :
          api_entries'[p] = api_entries[p] + 1
              => ctx'[p].api_calls_count = ctx[p].api_calls_count + 1]_vars

\* C15: a task blocked on a mutex of the runtime always waits with a finite
\* deadline, after which it gets Timeout.
C15_EveryWaitHasDeadline ==
    \A t \in Clients :
        canvas_lock[t].pc = "waiting" => canvas_lock[t].deadline # "portMAX_DELAY"

\* C16: from any state, while the access point stays up and the machine
\* holds credentials it accepts, the state Connected is eventually reached:
\* the machine does not cycle forever through its other states.
C16_ReachesConnected ==
    []([](wifi_env.ap_up /\ g_wifi_config.target = "good")
          => <>(g_wifi_config.state = "CONNECTED"))

\* C17: the state changes only along the transition table.
C17_TransitionsAlongTable ==
    [][g_wifi_config'.state # g_wifi_config.state =>
          <<g_wifi_config.state, g_wifi_config'.state>> \in
              {<<"OFF", "IDLE">>, <<"IDLE", "CHECK_SAVED">>,
               <<"CHECK_SAVED", "CONNECTING">>, <<"CHECK_SAVED", "AP_MODE">>,
               <<"AP_MODE", "PORTAL_ACTIVE">>,
               <<"PORTAL_ACTIVE", "CONNECTING">>, <<"PORTAL_ACTIVE", "TIMEOUT">>,
               <<"CONNECTING", "CONNECTED">>, <<"CONNECTING", "FAILED">>,
               <<"CONNECTED", "CONNECTING">>,
               <<"FAILED", "CONNECTING">>, <<"FAILED", "AP_MODE">>,
               <<"TIMEOUT", "AP_MODE">>}]_vars

\* C18: retry_count never exceeds max_retry, and the machine leaves Failed
\* for Connecting exactly while retry_count < max_retry, else for ApMode
\* with retry_count back at 0.
C18_RetryBounded ==
    /\ [](g_wifi_config.retry_count <= g_wifi_config.max_retry)
    /\ [][g_wifi_config.state = "FAILED" /\ g_wifi_config'.state # "FAILED" =>
             IF g_wifi_config.retry_count < g_wifi_config.max_retry
             THEN /\ g_wifi_config'.state = "CONNECTING"
                  /\ g_wifi_config'.retry_count = g_wifi_config.retry_count
             ELSE /\ g_wifi_config'.state = "AP_MODE"
                  /\ g_wifi_config'.retry_count = 0]_vars

\* C19: once the machine runs, the stored credentials change only in the
\* step that takes it from Connecting to Connected, and to the credentials
\* the access point accepted in that attempt.
C19_StoreWrittenOnConnect ==
    [][(g_wifi_config.state # "OFF" /\ wifi_nvs' # wifi_nvs) =>
          /\ g_wifi_config.state = "CONNECTING"
          /\ g_wifi_config'.state = "CONNECTED"
          /\ wifi_env'.accepted = wifi_nvs']_vars

\* C20: after render every pixel has the colour of the visible element
\* covering it that comes last in ascending z_index order (stored order
\* among equal z_index), and the background colour where no visible
\* element covers it.
C20_TopmostElementWins ==
    render.called =>
        \A x \in 0..(GridWidth - 1), y \in 0..(GridHeight - 1) :
            LET els == render.canvas.elements
                covering == {i \in 1..Len(els) :
                                /\ els[i].visible
                                /\ x >= els[i].bounds.x
                                /\ x < els[i].bounds.x + els[i].bounds.width
                                /\ y >= els[i].bounds.y
                                /\ y < els[i].bounds.y + els[i].bounds.height}
                last == {i \in covering :
                            \A j \in covering :
                                \/ els[j].z_index < els[i].z_index
                                \/ (els[j].z_index = els[i].z_index /\ j <= i)}
            IN  IF covering = {}
                THEN render.buffer[y * GridWidth + x] = render.canvas.background_color
                ELSE \E i \in last :
                        render.buffer[y * GridWidth + x] = els[i].fill_color

\* C20 witness: Blue with z_index 2 stored before Red with z_index 1, both
\* visible and overlapping in column 1: the shared pixel is Blue, the pixel
\* only Red covers is Red.
C20_OverlapShowsHigherZ ==
    /\ render.called
    /\ Len(render.canvas.elements) = 2
    /\ render.canvas.elements[1] =
          [bounds |-> [x |-> 1, y |-> 0, width |-> 2, height |-> 2],
           z_index |-> 2, visible |-> TRUE, fill_color |-> "BLUE"]
    /\ render.canvas.elements[2] =
          [bounds |-> [x |-> 0, y |-> 0, width |-> 2, height |-> 2],
           z_index |-> 1, visible |-> TRUE, fill_color |-> "RED"]
    /\ render.buffer[1] = "BLUE"
    /\ render.buffer[0] = "RED"

\* C21: for every stored canvas c, importing the JSON that export_json(c)
\* produced stores a canvas equal to c in id, name, background colour,
\* created_time and the whole ordered element list with its per-kind
\* properties (modified_time may differ), and exporting that canvas again
\* gives the same JSON up to modified_time.
C21_JsonRoundTrip ==
    /\ json_rt.pc \in {"imported", "reexported"} =>
          [json_rt.imported EXCEPT !.modified_time = 0]
             = [json_rt.canvas EXCEPT !.modified_time = 0]
    /\ json_rt.pc = "reexported" =>
          [json_rt.json2 EXCEPT !.modified_time = 0]
             = [json_rt.json EXCEPT !.modified_time = 0]

\* C22: for every (x, y, color), after set_pixel(x, y, color) get_pixel(x, y)
\* returns color if and only if (x, y) lies on the panel; for coordinates
\* outside the panel set_pixel changes no framebuffer byte and reports no
\* error.
C22_SetThenGet ==
    LET OnPanel == panel.set.x < GridWidth /\ panel.set.y < GridHeight
    IN  /\ (/\ panel.set.op = "set_pixel"
            /\ panel.got.op = "get_pixel"
            /\ panel.got.x = panel.set.x
            /\ panel.got.y = panel.set.y)
           => ((panel.got.color = panel.set.color) <=> OnPanel)
        /\ (panel.set.op = "set_pixel" /\ ~OnPanel)
           => (~panel.set.changed /\ panel.set.ret = "ESP_OK")

\* C22 as the code has it: on the panel get_pixel(x, y) returns the colour
\* just set; outside the panel set_pixel changes no framebuffer byte and
\* reports no error, and get_pixel returns White whatever colour was set
\* (so it equals the colour exactly when that was White).
C22_SetThenGetOnPanel ==
    LET OnPanel == panel.set.x < GridWidth /\ panel.set.y < GridHeight
        ReadBack == /\ panel.set.op = "set_pixel"
                    /\ panel.got.op = "get_pixel"
                    /\ panel.got.x = panel.set.x
                    /\ panel.got.y = panel.set.y
    IN  /\ (ReadBack /\ OnPanel) => panel.got.color = panel.set.color
        /\ (ReadBack /\ ~OnPanel) => panel.got.color = 1
        /\ (panel.set.op = "set_pixel" /\ ~OnPanel)
           => (~panel.set.changed /\ panel.set.ret = "ESP_OK")

\* C22 witness: Red set at (1, 1), pixel index GridWidth + 1, and read back,
\* after Red was set at (0, 0): both sit in the nibble the driver chose and
\* the neighbours are still White.
C22_RedReadBack ==
    /\ panel.set = [op |-> "set_pixel", x |-> 1, y |-> 1, color |-> 2,
                    ret |-> "ESP_OK", changed |-> TRUE]
    /\ panel.got.op = "get_pixel"
    /\ panel.got.color = 2
    /\ panel.framebuffer[0] = 33
    /\ fpc_a005_get_pixel_from_buffer(panel.framebuffer, 0, 1) = 1

\* C23: add_element fails with NotFound (ESP_ERR_NVS_NOT_FOUND) when the
\* canvas id is absent, with Full (ESP_ERR_NO_MEM) when the canvas already
\* holds the maximum number of elements, and with Duplicate
\* (ESP_ERR_INVALID_STATE) when an element with the same id is already in the
\* canvas; in each of these cases the call leaves the stored canvas unchanged.
C23_AddElementFailures ==
    [][\A t \in Clients :
          /\ (/\ client[t].pc = "idle"
              /\ client'[t] # client[t]
              /\ client'[t].op = "add_element"
              /\ \A id \in CanvasIds : nvs_canvas[id] = NoCanvas)
             => /\ client'[t].pc = "idle"
                /\ client'[t].ret = "ESP_ERR_NVS_NOT_FOUND"
                /\ nvs_canvas' = nvs_canvas
          /\ (/\ client[t].pc = "got"
              /\ client[t].op = "add_element"
              /\ client'[t].pc = "idle")
             => LET els == client[t].canvas.elements
                    full == Len(els) >= MaxElements
                    duplicate == \E i \in 1..Len(els) :
                                    els[i].id = client[t].element.id
                IN  /\ full => /\ client'[t].ret = "ESP_ERR_NO_MEM"
                               /\ nvs_canvas' = nvs_canvas
                    /\ (duplicate /\ ~full)
                          => /\ client'[t].ret = "ESP_ERR_INVALID_STATE"
                             /\ nvs_canvas' = nvs_canvas]_vars

\* C23 witness: add_element of "a" has just failed with Duplicate on the
\* canvas that holds "a" alone, and the canvas still holds exactly that.
C23_DuplicateRejected ==
    \E t \in Clients :
        /\ client[t].op = "add_element"
        /\ client[t].ret = "ESP_ERR_INVALID_STATE"
        /\ client[t].element = [id |-> "a"]
        /\ ~client[t].overlapped
        /\ nvs_canvas["home"] = [id |-> "home", elements |-> <<[id |-> "a"]>>]

\* C24: create(id, name) for an id that already exists in the canvas store
\* fails (AlreadyExists) and leaves the existing canvas, elements included,
\* unchanged.
C24_CreateExistingFails ==
    [][\A t \in Clients :
          (/\ client[t].pc = "idle"
           /\ client'[t].pc = "idle"
           /\ client'[t].op = "create"
           /\ \A id \in CanvasIds : nvs_canvas[id] # NoCanvas)
          => /\ client'[t].ret # "ESP_OK"
             /\ nvs_canvas' = nvs_canvas]_vars

\* C25: after any sequence of register calls the registry holds at most
\* the maximum number of plugins, with pairwise distinct names; a register
\* call made when the registry is full, or with a name that is already
\* registered, fails and changes neither the registry nor the plugin count.
C25_RegistryBoundedUnique ==
    /\ [](/\ Len(registry.plugins) <= MaxPlugins
          /\ \A i, j \in 1..Len(registry.plugins) :
                registry.plugins[i].name = registry.plugins[j].name => i = j)
    /\ [][(/\ registry'.last # registry.last
           /\ \/ Len(registry.plugins) = MaxPlugins
              \/ \E i \in 1..Len(registry.plugins) :
                    registry.plugins[i].name = registry'.last.plugin.name)
          => /\ registry'.last.ret # "ESP_OK"
             /\ registry'.plugins = registry.plugins]_vars

\* C25 witness: the registry is full and the last call, made with a name
\* that is not registered, failed for lack of room.
C25_FullRegistryRejects ==
    /\ Len(registry.plugins) = MaxPlugins
    /\ registry.last.ret = "ESP_ERR_NO_MEM"
    /\ \A i \in 1..Len(registry.plugins) :
          registry.plugins[i].name # registry.last.plugin.name

\* C26: register rejects a plugin whose name or version is empty or which
\* has no init callback, leaving the registry unchanged; every plugin that
\* register accepts is in state Loaded with memory_limit and update_interval
\* non-zero.
C26_RegisterValidates ==
    /\ [](\A i \in 1..Len(registry.plugins) :
             /\ registry.plugins[i].state = "LOADED"
             /\ registry.plugins[i].memory_limit # 0
             /\ registry.plugins[i].update_interval # 0)
    /\ [][(/\ registry'.last # registry.last
           /\ \/ registry'.last.plugin.name = ""
              \/ registry'.last.plugin.version = ""
              \/ ~registry'.last.plugin.init)
          => /\ registry'.last.ret # "ESP_OK"
             /\ registry'.plugins = registry.plugins]_vars

\* C27: http_get and http_post send a request only if the host of the url
\* is one of the allow-listed domains; for every other host the call returns
\* NotAllowed and no request is sent.
C27_OnlyAllowedHosts ==
    http.method # "none" =>
        LET listed == UrlHost(http.url) \in
                        {<<"api.github.com">>, <<"httpbin.org">>,
                         <<"jsonplaceholder.typicode.com">>}
        IN  /\ http.sent => listed
            /\ ~listed => (http.ret = "ESP_ERR_NOT_ALLOWED" /\ ~http.sent)

\* C28: after pin_ota_check_update returns ESP_OK, update_available is TRUE
\* exactly when the manifest's tag_name differs from current_version as a
\* string, and available_update holds that manifest's tag and the URL and
\* size of that manifest's firmware asset. Stated for the calls that read
\* and parsed the manifest.
C28_CheckDescribesManifest ==
    (update_check.last.ret = "ESP_OK" /\ update_check.last.outcome = "read") =>
        LET m == update_check.last.manifest
            k == FirmwareAsset(m.assets)
        IN  /\ update_check.update_available <=> (m.tag_name # update_check.current_version)
            /\ update_check.available_update.version = m.tag_name
            /\ k # 0
            /\ update_check.available_update.url = m.assets[k].browser_download_url
            /\ update_check.available_update.size = m.assets[k].size

\* C29: current_version names the image that is running: once pin_ota_init
\* has run after a boot (after an update that reported complete(true), or
\* after a rollback), current_version is the version of the running image.
C29_VersionNamesRunningImage ==
    boot.pc = "ready" => boot.current_version = boot.running

\* C30: after pin_canvas_display returns ESP_OK, every panel pixel (x, y)
\* has the colour pin_canvas_render computed for (x, y), and that
\* framebuffer has been sent to the panel with a full refresh.
C30_PanelShowsRenderedScene ==
    panel.display.ret = "ESP_OK" =>
        /\ \A x \in 0..(GridWidth - 1), y \in 0..(GridHeight - 1) :
              fpc_a005_get_pixel_from_buffer(panel.framebuffer, x, y)
                 = ColorCode(render.buffer[y * GridWidth + x])
        /\ panel.sent.mode = "FULL"
        /\ panel.sent.data = panel.framebuffer

\* C31: a failed update increments error_count and stats.error_count, and
\* a successful one resets error_count to 0 and increments
\* stats.update_count: whenever a worker finishes the accounting of an
\* update that has returned, the counters have moved by exactly that.
C31_UpdateAccounting ==
    [][\A w \in TaskIds :
          (tasks[w].pc = "counting" /\ tasks'[w].pc # "counting" /\ caller' = caller) =>
              LET p == tasks[w].plugin
              IN  IF tasks[w].ret # "ESP_OK"
                  THEN /\ plugins'[p].error_count = plugins[p].error_count + 1
                       /\ ctx'[p].error_count = ctx[p].error_count + 1
                  ELSE /\ plugins'[p].error_count = 0
                       /\ ctx'[p].update_count = ctx[p].update_count + 1]_vars

\* C32: a refresh that is performed after max_partial_refresh consecutive
\* partial refreshes, or full_refresh_interval seconds after the last full
\* refresh, is performed as a full refresh, and so the partial-refresh
\* streak never exceeds max_partial_refresh.
C32_RefreshUpgradedToFull ==
    /\ (refresher.last.mode \notin {"none", "NONE"} /\ refresher.last.ret = "ESP_OK"
        /\ (refresher.last.streak_before >= max_partial_refresh
            \/ refresher.last.since_full >= full_refresh_interval))
          => refresher.last.mode = "FULL"
    /\ refresher.stats.partial_refresh_count <= max_partial_refresh

\* C33: stats.memory_used always equals the total size of the plugin's
\* live allocations (the blocks pin_plugin_malloc returned and
\* pin_plugin_free has not released yet).
C33_MemoryUsedIsLiveTotal ==
    mem.last # "none" => mem.memory_used = SumSizes(blocks)

\* C34: framebuffer data is never on its way to the panel while
\* is_sleeping is true, and a refresh whose wake failed has returned that
\* error without sending data.
C34_NoDataWhileSleeping ==
    \A t \in DisplayTasks :
        /\ driver.task[t].pc = "data" => ~driver.is_sleeping
        /\ (driver.task[t].op = "refresh" /\ driver.task[t].wake_ret \notin {"none", "ESP_OK"})
              => (~driver.task[t].sent /\ driver.task[t].pc = "idle"
                  /\ driver.task[t].ret = driver.task[t].wake_ret)

\* C35: when a worker that left its loop on the cancel bit reports the end
\* of the update as an error, error_message is "cancelled" (the text alone,
\* with no error name after it).
C35_CancelledMessage ==
    [][\A w \in OtaTaskIds :
          (ota_tasks[w].pc = "report" /\ ota_tasks'[w].pc # "report"
           /\ ota_tasks[w].saw_cancel /\ g_ota_status'.state = "ERROR")
             => g_ota_status'.error_message = <<"cancelled", "">>]_vars

\* C36: while a worker is between its first and its last write of the
\* state, a step of pin_ota_check_update (entry or exit) does not leave the
\* state Checking, Idle or Error.
C36_CheckLeavesRunningUpdate ==
    [][((\E w \in OtaTaskIds :
            ota_tasks[w].pc \notin {"none", "created", "done", "reboot_wait"})
        /\ ota_checker' # ota_checker)
          => g_ota_status'.state \notin {"CHECKING", "IDLE", "ERROR"}]_vars

\* C37: with updates that ran one after the other (no second task slot
\* was ever filled), a worker leaves its loop on the cancel bit only if
\* pin_ota_cancel_update was accepted while that worker was in progress.
C37_CancelOnlyOwnUpdate ==
    \A w \in OtaTaskIds :
        (ota_tasks[w].saw_cancel
         /\ \A v \in OtaTaskIds \ {w} : ota_tasks[v].pc = "none")
            => ota_tasks[w].cancelled

\* C38: when an enable(true) ends on a failed init (the plugin's record
\* changes to state Error with no caller and no worker moving) or on a
\* failed start (a caller leaves the start part and only the state
\* changes, to Error), the plugin is not enabled, its state is Error and
\* it has no worker that could invoke update.
C38_FailedEnableLeavesError ==
    [][\A p \in Plugins :
          ((/\ plugins'[p] # plugins[p]
            /\ plugins'[p] = [plugins[p] EXCEPT !.state = "ERROR"]
            /\ tasks' = tasks
            /\ \/ caller' = caller
               \/ \E c \in Callers : /\ caller[c] = [pc |-> "start", plugin |-> p]
                                     /\ caller'[c].pc = "idle")
              => /\ ~plugins'[p].enabled
                 /\ \A w \in TaskIds :
                       ~(tasks'[w].pc # "none" /\ tasks'[w].plugin = p))]_vars

\* C39: the portal is left for Connecting only when credentials have been
\* submitted that no earlier Connecting attempt has already used.
C39_ConnectingOnlyOnFreshConfig ==
    [][(g_wifi_config.state = "PORTAL_ACTIVE"
        /\ g_wifi_config'.state = "CONNECTING") => wifi_env.fresh]_vars

\* C40: once every pin_display_refresh call has returned, total_refreshes
\* counts every refresh that succeeded, full_refreshes and
\* partial_refreshes count those of their mode, and total_refreshes is
\* their sum.
C40_StatsCountEveryRefresh ==
    (\A t \in RefreshCallers : refresh_calls.task[t].pc = "idle") =>
        /\ refresh_calls.stats.total_refreshes =
              refresh_calls.ok.FULL + refresh_calls.ok.PARTIAL
        /\ refresh_calls.stats.full_refreshes = refresh_calls.ok.FULL
        /\ refresh_calls.stats.partial_refreshes = refresh_calls.ok.PARTIAL
        /\ refresh_calls.stats.total_refreshes =
              refresh_calls.stats.full_refreshes
                 + refresh_calls.stats.partial_refreshes

====
